---- MODULE Spec2Model ----
(***************************************************************************)
(* Kanban plugin: board access control and the positional ordering of      *)
(* columns and cards, modelled from the API route handlers.                *)
(*                                                                         *)
(* Tables are sets of rows (records); the activity log is the sequence of  *)
(* rows inserted into kanban_activities.  Every route handler is one       *)
(* action: requests are served one at a time in the serial specifications. *)
(***************************************************************************)
EXTENDS Integers, Sequences, FiniteSets, TLC

(* ------------------------------ bounds --------------------------------- *)
\* number of column ids the database can hand out (ids are 1..MaxColumns)
MaxColumns == 4
\* number of card ids the database can hand out (ids are 1..MaxCards)
MaxCards == 4
\* largest position a request body carries
MaxPos == 2
\* requests served in one behaviour
MaxRequests == 1

(* --------------------------- value domains ----------------------------- *)
\* An optional JSON field: <<>> is undefined, <<v>> is the value v.
Undefined == <<>>
Some(v) == <<v>>
IsDefined(o) == o # <<>>
Val(o) == o[1]

\* session.user.id; "" is a request without a session
NoUser == ""
Users == {"u1", "u2", "u3"}
BoardIds == {"b1", "b2"}
\* a board id no row has
GhostBoard == "b9"
Teams == {"t1"}
NoTeam == ""

BoardRole == {"owner", "editor", "viewer"}

\* String.prototype.trim on the strings requests carry
Trim(s) ==
  CASE s = " "     -> ""
    [] s = " Todo" -> "Todo"
    [] OTHER       -> s

VARIABLES
  boards,       \* kanban_boards rows
  members,      \* kanban_board_members rows
  teamMembers,  \* the host's team_members rows
  columns,      \* kanban_columns rows
  cards,        \* kanban_cards rows
  activities,   \* kanban_activities rows, in insertion order
  nextColumn,   \* next fresh column id
  nextCard,     \* next fresh card id
  req,          \* the request served last
  resp,         \* the HTTP status answered to it
  role,         \* the role checkBoardAccess resolved for it ("" when not resolved)
  served,       \* the number of requests served so far
  inflight,     \* the move requests whose handler runs statement by statement
  observed,     \* the card rows the last GET /boards/[boardId] answered
  listed,       \* the ids of the boards the last GET /boards answered
  logDown       \* whether the INSERT into kanban_activities of the request served last threw

dbvars == <<boards, members, teamMembers, columns, cards, activities, nextColumn, nextCard>>
vars == <<boards, members, teamMembers, columns, cards, activities, nextColumn, nextCard,
          req, resp, role, served, inflight, observed, listed, logDown>>

(* --------------------------- access control ---------------------------- *)
NoAccess == [hasAccess |-> FALSE, role |-> ""]
Grant(r) == [hasAccess |-> TRUE, role |-> r]

BoardRow(boardId) == CHOOSE b \in boards : b.id = boardId
MemberRows(boardId, userId) == {m \in members : m.boardId = boardId /\ m.userId = userId}

\* resolution that looks at the member row before the creator
checkBoardAccess_MemberFirst(boardId, userId) ==
  IF ~ \E b \in boards : b.id = boardId THEN NoAccess
  ELSE LET board == BoardRow(boardId) IN
    IF MemberRows(boardId, userId) # {}
      THEN Grant((CHOOSE m \in MemberRows(boardId, userId) : TRUE).role)
    ELSE IF board.createdBy = userId THEN Grant("owner")
    ELSE IF board.teamId # NoTeam /\ board.type = "team"
            /\ \E tm \in teamMembers : tm.teamId = board.teamId /\ tm.userId = userId
      THEN Grant("editor")
    ELSE NoAccess

\* resolution that lets the team grant win over the member row
checkBoardAccess_TeamFirst(boardId, userId) ==
  IF ~ \E b \in boards : b.id = boardId THEN NoAccess
  ELSE LET board == BoardRow(boardId) IN
    IF board.createdBy = userId THEN Grant("owner")
    ELSE IF board.teamId # NoTeam /\ board.type = "team"
            /\ \E tm \in teamMembers : tm.teamId = board.teamId /\ tm.userId = userId
      THEN Grant("editor")
    ELSE IF MemberRows(boardId, userId) # {}
      THEN Grant((CHOOSE m \in MemberRows(boardId, userId) : TRUE).role)
    ELSE NoAccess

\* resolution that grants editor on a team board without looking up the caller's team
checkBoardAccess_AnyTeamBoard(boardId, userId) ==
  IF ~ \E b \in boards : b.id = boardId THEN NoAccess
  ELSE LET board == BoardRow(boardId) IN
    IF board.createdBy = userId THEN Grant("owner")
    ELSE IF MemberRows(boardId, userId) # {}
      THEN Grant((CHOOSE m \in MemberRows(boardId, userId) : TRUE).role)
    ELSE IF board.teamId # NoTeam /\ board.type = "team" THEN Grant("editor")
    ELSE NoAccess

checkBoardAccess(boardId, userId) ==
  IF ~ \E b \in boards : b.id = boardId THEN NoAccess
  ELSE LET board == BoardRow(boardId) IN
    IF board.createdBy = userId THEN Grant("owner")
    ELSE IF MemberRows(boardId, userId) # {}
      THEN Grant((CHOOSE m \in MemberRows(boardId, userId) : TRUE).role)
    ELSE IF board.teamId # NoTeam /\ board.type = "team"
            /\ \E tm \in teamMembers : tm.teamId = board.teamId /\ tm.userId = userId
      THEN Grant("editor")
    ELSE NoAccess

\* an edit check that lets every role with access through
canEdit_AnyRole(r) == r \in {"owner", "editor", "viewer"}
canEdit(r) == r = "owner" \/ r = "editor"
\* a delete check that follows the edit check
canDelete_AsEdit(r) == r = "owner" \/ r = "editor"
canDelete(r) == r = "owner"
canManageMembers(r) == r = "owner"
canArchive(r) == r = "owner"
canModifyBoardSettings(r) == r = "owner" \/ r = "editor"

(* ----------------------------- requests -------------------------------- *)
\* What `req` records of a request: the route, the session's user and the ids
\* in the URL (and, for a card or a column named in the body, its id).
NoRequest == [op |-> "none", user |-> NoUser, boardId |-> "", columnId |-> 0, cardId |-> 0]

\* an early return that leaves an activity behind
Reject_Logged(status, r) ==
  /\ resp' = status
  /\ role' = r
  /\ activities' = Append(activities, [boardId |-> "", cardId |-> 0, userId |-> "",
                                       type |-> "rejected", meta |-> <<>>])
  /\ UNCHANGED <<boards, members, teamMembers, columns, cards, nextColumn, nextCard>>

\* An early return: the status is answered and no table is written.
Reject(status, r) ==
  /\ resp' = status
  /\ role' = r
  /\ UNCHANGED dbvars

\* The role a handler holds after checkBoardAccess, as recorded in `role`.
Resolved(access) == IF access.hasAccess THEN access.role ELSE "none"

(* ---------------------------- activity log ----------------------------- *)
\* kanban_activities.board_id references kanban_boards: an insert naming a
\* missing board fails, as does the insert of a request during which the
\* table cannot be written, and logActivity swallows the failure.
logActivity(acts, bds, boardId, cardId, userId, type, meta) ==
  IF ~logDown' /\ \E b \in bds : b.id = boardId
    THEN Append(acts, [boardId |-> boardId, cardId |-> cardId, userId |-> userId,
                       type |-> type, meta |-> meta])
    ELSE acts

(* ------------------------------ ordering ------------------------------- *)
\* The sequences listing every row of S once, in non-decreasing position:
\* the results ORDER BY position may return (rows of equal position in any order).
OrderedByPosition(S) ==
  {s \in [1..Cardinality(S) -> S] :
     /\ \A i, j \in 1..Cardinality(S) : i # j => s[i] # s[j]
     /\ \A i \in 1..(Cardinality(S) - 1) : s[i].position <= s[i + 1].position}

MaxPosition(S) == CHOOSE p \in {r.position : r \in S} : \A r \in S : r.position <= p

ColumnsOf(cols, boardId) == {c \in cols : c.boardId = boardId}

(* ---------------------------- column routes ---------------------------- *)
\* a shift that leaves the column at the requested position where it is
ShiftColumnsFrom_After(cols, boardId, position) ==
  {IF c.boardId = boardId /\ c.position > position
     THEN [c EXCEPT !.position = @ + 1] ELSE c : c \in cols}

\* UPDATE kanban_columns SET position = position + 1
\*   WHERE board_id = boardId AND position > position - 1
ShiftColumnsFrom(cols, boardId, position) ==
  {IF c.boardId = boardId /\ c.position > position - 1
     THEN [c EXCEPT !.position = @ + 1] ELSE c : c \in cols}

\* the guard of step 5 of the create-column handler
ShouldShiftColumns(existing, position) ==
  IsDefined(position)
  /\ Val(position) <= (IF existing = {} THEN 0 ELSE MaxPosition(existing))

NewColumnPosition(existing, position) ==
  IF IsDefined(position) THEN Val(position)
  ELSE (IF existing = {} THEN -1 ELSE MaxPosition(existing)) + 1

\* POST /boards/[boardId]/columns
CreateColumn(user, boardId, name, position, limit, color) ==
  LET access == checkBoardAccess(boardId, user)
      existing == ColumnsOf(columns, boardId)
      shifted == IF ShouldShiftColumns(existing, position)
                   THEN ShiftColumnsFrom(columns, boardId, Val(position))
                   ELSE columns
      newColumn == [id |-> nextColumn, boardId |-> boardId, name |-> Trim(name),
                    position |-> NewColumnPosition(existing, position),
                    limit |-> IF IsDefined(limit) /\ Val(limit) # 0 THEN Val(limit) ELSE 0,
                    color |-> IF IsDefined(color) /\ Val(color) # "" THEN Val(color) ELSE "#gray"]
  IN
  /\ req' = [NoRequest EXCEPT !.op = "createColumn", !.user = user, !.boardId = boardId]
  /\ IF user = NoUser THEN Reject(401, "")
     ELSE IF ~access.hasAccess \/ access.role = "" THEN Reject(404, Resolved(access))
     ELSE IF ~canEdit(access.role) THEN Reject(403, access.role)
     ELSE IF name = "" \/ Trim(name) = "" THEN Reject(400, access.role)
     ELSE /\ nextColumn <= MaxColumns
          /\ columns' = shifted \cup {newColumn}
          /\ nextColumn' = nextColumn + 1
          /\ activities' = logActivity(activities, boards, boardId, 0, user,
                                       "column_created", <<newColumn.name>>)
          /\ resp' = 201
          /\ role' = access.role
          /\ UNCHANGED <<boards, members, teamMembers, cards, nextCard>>

\* UPDATE kanban_columns SET ... WHERE id = columnId
ApplyColumnUpdates(cols, columnId, name, limit, color) ==
  {IF c.id = columnId
     THEN [c EXCEPT !.name = IF IsDefined(name) THEN Trim(Val(name)) ELSE @,
                    !.limit = IF IsDefined(limit) THEN Val(limit) ELSE @,
                    !.color = IF IsDefined(color) THEN Val(color) ELSE @]
     ELSE c : c \in cols}

\* PATCH /boards/[boardId]/columns/[columnId]
UpdateColumn(user, boardId, columnId, name, limit, color) ==
  LET access == checkBoardAccess(boardId, user)
      updated == ApplyColumnUpdates(columns, columnId, name, limit, color)
  IN
  /\ req' = [NoRequest EXCEPT !.op = "updateColumn", !.user = user, !.boardId = boardId,
                              !.columnId = columnId]
  /\ IF user = NoUser THEN Reject(401, "")
     ELSE IF ~access.hasAccess \/ access.role = "" THEN Reject(404, Resolved(access))
     ELSE IF ~canEdit(access.role) THEN Reject(403, access.role)
     ELSE IF IsDefined(name) /\ Trim(Val(name)) = "" THEN Reject(400, access.role)
     ELSE IF ~ \E c \in columns : c.id = columnId THEN Reject(404, access.role)
     ELSE /\ columns' = updated
          /\ activities' = logActivity(activities, boards, boardId, 0, user, "column_updated",
                                       <<(CHOOSE c \in updated : c.id = columnId).name>>)
          /\ resp' = 200
          /\ role' = access.role
          /\ UNCHANGED <<boards, members, teamMembers, cards, nextColumn, nextCard>>

\* DELETE FROM kanban_columns WHERE id = columnId (cards cascade)
RemoveColumn(cols, columnId) == {c \in cols : c.id # columnId}
CascadeCardsOfColumn(cds, columnId) == {k \in cds : k.columnId # columnId}

\* a delete that leaves the remaining columns where they were
RenumberColumns_Keep(cols, ordered) == cols

\* step 6 of the delete-column handler: position := index in `ordered`
RenumberColumns(cols, ordered) ==
  {IF \E i \in 1..Len(ordered) : ordered[i].id = c.id
     THEN [c EXCEPT !.position = (CHOOSE i \in 1..Len(ordered) : ordered[i].id = c.id) - 1]
     ELSE c : c \in cols}

\* DELETE /boards/[boardId]/columns/[columnId]
DeleteColumn(user, boardId, columnId) ==
  LET access == checkBoardAccess(boardId, user)
      remaining == RemoveColumn(columns, columnId)
  IN
  /\ req' = [NoRequest EXCEPT !.op = "deleteColumn", !.user = user, !.boardId = boardId,
                              !.columnId = columnId]
  /\ IF user = NoUser THEN Reject(401, "")
     ELSE IF ~access.hasAccess \/ access.role = "" THEN Reject(404, Resolved(access))
     ELSE IF ~canEdit(access.role) THEN Reject(403, access.role)
     ELSE IF ~ \E c \in columns : c.id = columnId THEN Reject(404, access.role)
     ELSE /\ \E ordered \in OrderedByPosition(ColumnsOf(remaining, boardId)) :
               columns' = RenumberColumns(remaining, ordered)
          /\ cards' = CascadeCardsOfColumn(cards, columnId)
          /\ activities' = logActivity(activities, boards, boardId, 0, user, "column_deleted",
                                       <<(CHOOSE c \in columns : c.id = columnId).name>>)
          /\ resp' = 200
          /\ role' = access.role
          /\ UNCHANGED <<boards, members, teamMembers, nextColumn, nextCard>>

\* step 4 of the reorder handler: for i in order,
\*   UPDATE kanban_columns SET position = i WHERE id = columnIds[i]
\* a reorder that numbers the columns from 1
ApplyReorder_OneBased(cols, columnIds, i) ==
  {IF \E j \in 1..Len(columnIds) : columnIds[j] = c.id
     THEN [c EXCEPT !.position = CHOOSE j \in 1..Len(columnIds) :
                                   /\ columnIds[j] = c.id
                                   /\ \A n \in (j + 1)..Len(columnIds) : columnIds[n] # c.id]
     ELSE c : c \in cols}

RECURSIVE ApplyReorder(_, _, _)
ApplyReorder(cols, columnIds, i) ==
  IF i > Len(columnIds) THEN cols
  ELSE ApplyReorder({IF c.id = columnIds[i] THEN [c EXCEPT !.position = i - 1] ELSE c : c \in cols},
                    columnIds, i + 1)

\* POST /boards/[boardId]/columns/reorder
ReorderColumns(user, boardId, columnIds) ==
  LET access == checkBoardAccess(boardId, user) IN
  /\ req' = [NoRequest EXCEPT !.op = "reorderColumns", !.user = user, !.boardId = boardId]
  /\ IF user = NoUser THEN Reject(401, "")
     ELSE IF ~access.hasAccess \/ access.role = "" THEN Reject(404, Resolved(access))
     ELSE IF ~canEdit(access.role) THEN Reject(403, access.role)
     ELSE IF Len(columnIds) = 0 THEN Reject(400, access.role)
     ELSE /\ columns' = ApplyReorder(columns, columnIds, 1)
          /\ activities' = logActivity(activities, boards, boardId, 0, user,
                                       "column_reordered", <<>>)
          /\ resp' = 200
          /\ role' = access.role
          /\ UNCHANGED <<boards, members, teamMembers, cards, nextColumn, nextCard>>

(* ----------------------------- card routes ----------------------------- *)
LiveCardsOf(cds, columnId) == {k \in cds : k.columnId = columnId /\ ~k.isArchived}

\* a position for a new card counted from the number of cards
NewCardPosition_Count(existing, position) ==
  IF IsDefined(position) THEN Val(position) ELSE Cardinality(existing)

NewCardPosition(existing, position) ==
  IF IsDefined(position) THEN Val(position)
  ELSE (IF existing = {} THEN -1 ELSE MaxPosition(existing)) + 1

\* POST /boards/[boardId]/cards
CreateCard(user, boardId, columnId, title, position) ==
  LET access == checkBoardAccess(boardId, user)
      existing == LiveCardsOf(cards, columnId)
      newCard == [id |-> nextCard, columnId |-> columnId, boardId |-> boardId,
                  title |-> Trim(title), position |-> NewCardPosition(existing, position),
                  isArchived |-> FALSE]
  IN
  /\ req' = [NoRequest EXCEPT !.op = "createCard", !.user = user, !.boardId = boardId,
                              !.columnId = columnId]
  /\ IF user = NoUser THEN Reject(401, "")
     ELSE IF ~access.hasAccess \/ access.role = "" THEN Reject(404, Resolved(access))
     ELSE IF ~canEdit(access.role) THEN Reject(403, access.role)
     ELSE IF columnId = 0 THEN Reject(400, access.role)
     ELSE IF title = "" \/ Trim(title) = "" THEN Reject(400, access.role)
     ELSE IF ~ \E c \in columns : c.id = columnId /\ c.boardId = boardId
       THEN Reject(404, access.role)
     ELSE /\ nextCard <= MaxCards
          /\ cards' = cards \cup {newCard}
          /\ nextCard' = nextCard + 1
          /\ activities' = logActivity(activities, boards, boardId, newCard.id, user,
                                       "card_created", <<newCard.title>>)
          /\ resp' = 201
          /\ role' = access.role
          /\ UNCHANGED <<boards, members, teamMembers, columns, nextColumn>>

CardRow(cardId) == CHOOSE k \in cards : k.id = cardId

\* UPDATE kanban_cards SET ... WHERE id = cardId
ApplyCardUpdates(cds, cardId, title, isArchived) ==
  {IF k.id = cardId
     THEN [k EXCEPT !.title = IF IsDefined(title) THEN Trim(Val(title)) ELSE @,
                    !.isArchived = IF IsDefined(isArchived) THEN Val(isArchived) ELSE @]
     ELSE k : k \in cds}

BoolText(b) == IF b THEN "true" ELSE "false"

\* PATCH /cards/[cardId]: the title stands for the content fields, isArchived
\* is the archive toggle
UpdateCard(user, cardId, title, isArchived) ==
  /\ req' = [NoRequest EXCEPT !.op = "updateCard", !.user = user, !.cardId = cardId]
  /\ IF user = NoUser THEN Reject(401, "")
     ELSE IF ~ \E k \in cards : k.id = cardId THEN Reject(404, "")
     ELSE LET card == CardRow(cardId)
              access == checkBoardAccess(card.boardId, user)
              updated == ApplyCardUpdates(cards, cardId, title, isArchived)
              logged1 == IF IsDefined(isArchived)
                           THEN logActivity(activities, boards, card.boardId, cardId, user,
                                            "card_archived",
                                            <<card.title, BoolText(Val(isArchived))>>)
                           ELSE activities
              logged2 == IF IsDefined(title) /\ ~IsDefined(isArchived)
                           THEN logActivity(logged1, boards, card.boardId, cardId, user,
                                            "card_updated",
                                            <<(CHOOSE k \in updated : k.id = cardId).title>>)
                           ELSE logged1
          IN
          IF ~access.hasAccess \/ access.role = "" THEN Reject(403, Resolved(access))
          ELSE IF ~canEdit(access.role) THEN Reject(403, access.role)
          ELSE IF IsDefined(title) /\ Trim(Val(title)) = "" THEN Reject(400, access.role)
          ELSE /\ cards' = updated
               /\ activities' = logged2
               /\ resp' = 200
               /\ role' = access.role
               /\ UNCHANGED <<boards, members, teamMembers, columns, nextColumn, nextCard>>

\* DELETE FROM kanban_cards WHERE id = cardId
RemoveCard(cds, cardId) == {k \in cds : k.id # cardId}

\* a delete handler that lets the failure of its activity insert reach its
\* catch block: it logs before it deletes, so the card stays
DeleteCard_LogOrFail(user, cardId) ==
  /\ req' = [NoRequest EXCEPT !.op = "deleteCard", !.user = user, !.cardId = cardId]
  /\ IF user = NoUser THEN Reject(401, "")
     ELSE IF ~ \E k \in cards : k.id = cardId THEN Reject(404, "")
     ELSE LET card == CardRow(cardId)
              access == checkBoardAccess(card.boardId, user)
          IN
          IF ~access.hasAccess \/ access.role = "" THEN Reject(403, Resolved(access))
          ELSE IF ~canEdit(access.role) THEN Reject(403, access.role)
          ELSE IF logDown' THEN Reject(500, access.role)
          ELSE /\ cards' = RemoveCard(cards, cardId)
               /\ activities' = logActivity(activities, boards, card.boardId, cardId, user,
                                            "card_deleted", <<card.title>>)
               /\ resp' = 200
               /\ role' = access.role
               /\ UNCHANGED <<boards, members, teamMembers, columns, nextColumn, nextCard>>

\* DELETE /cards/[cardId]
DeleteCard(user, cardId) ==
  /\ req' = [NoRequest EXCEPT !.op = "deleteCard", !.user = user, !.cardId = cardId]
  /\ IF user = NoUser THEN Reject(401, "")
     ELSE IF ~ \E k \in cards : k.id = cardId THEN Reject(404, "")
     ELSE LET card == CardRow(cardId)
              access == checkBoardAccess(card.boardId, user)
          IN
          IF ~access.hasAccess \/ access.role = "" THEN Reject(403, Resolved(access))
          ELSE IF ~canEdit(access.role) THEN Reject(403, access.role)
          ELSE /\ cards' = RemoveCard(cards, cardId)
               /\ activities' = logActivity(activities, boards, card.boardId, cardId, user,
                                            "card_deleted", <<card.title>>)
               /\ resp' = 200
               /\ role' = access.role
               /\ UNCHANGED <<boards, members, teamMembers, columns, nextColumn, nextCard>>

\* a range shift that ignores the upper end of the range
ShiftCards_NoUpperEnd(cds, columnId, lo, hi, delta) ==
  {IF k.columnId = columnId /\ ~k.isArchived /\ k.position >= lo
     THEN [k EXCEPT !.position = @ + delta] ELSE k : k \in cds}

\* UPDATE kanban_cards SET position = position + delta
\*   WHERE column_id = columnId AND is_archived = false AND lo <= position <= hi
ShiftCards(cds, columnId, lo, hi, delta) ==
  {IF k.columnId = columnId /\ ~k.isArchived /\ k.position >= lo /\ k.position <= hi
     THEN [k EXCEPT !.position = @ + delta] ELSE k : k \in cds}

\* UPDATE kanban_cards SET position = position + delta
\*   WHERE column_id = columnId AND is_archived = false AND position >= lo
ShiftCardsFrom(cds, columnId, lo, delta) ==
  {IF k.columnId = columnId /\ ~k.isArchived /\ k.position >= lo
     THEN [k EXCEPT !.position = @ + delta] ELSE k : k \in cds}

\* a same-column move that handles only the move towards the end
MoveWithinColumn_OnlyLater(cds, columnId, sourcePosition, position) ==
  ShiftCards(cds, columnId, sourcePosition + 1, position, -1)

\* step 6 of the move handler, same column
MoveWithinColumn(cds, columnId, sourcePosition, position) ==
  IF sourcePosition < position
    THEN ShiftCards(cds, columnId, sourcePosition + 1, position, -1)
    ELSE ShiftCards(cds, columnId, position, sourcePosition - 1, 1)

\* a move that forgets to close the gap in the source column
MoveAcrossColumns_NoCompaction(cds, sourceColumnId, sourcePosition, columnId, position) ==
  ShiftCardsFrom(cds, columnId, position, 1)

\* step 6 of the move handler, different column
MoveAcrossColumns(cds, sourceColumnId, sourcePosition, columnId, position) ==
  ShiftCardsFrom(ShiftCardsFrom(cds, sourceColumnId, sourcePosition + 1, -1),
                 columnId, position, 1)

\* step 7 of the move handler: UPDATE kanban_cards SET column_id, position WHERE id = cardId
PlaceCard(cds, cardId, columnId, position) ==
  {IF k.id = cardId THEN [k EXCEPT !.columnId = columnId, !.position = position] ELSE k
     : k \in cds}

ColumnName(columnId) ==
  IF \E c \in columns : c.id = columnId
    THEN (CHOOSE c \in columns : c.id = columnId).name
    ELSE "Unknown"

\* a target lookup that does not look at the ids at all
TargetColumnFound_Always(columnId, boardId) == TRUE

\* a target lookup by id alone, on whichever board the column is
TargetColumnFound_AnyBoard(columnId, boardId) == \E c \in columns : c.id = columnId

\* step 5 of the move handler: findFirst where id = columnId and boardId = card.boardId
TargetColumnFound(columnId, boardId) ==
  \E c \in columns : c.id = columnId /\ c.boardId = boardId

\* a move handler without the early return for an unchanged place, which logs
\* every move it carries out
MoveCard_LogsEveryMove(user, cardId, columnId, position) ==
  /\ req' = [NoRequest EXCEPT !.op = "moveCard", !.user = user, !.cardId = cardId,
                              !.columnId = columnId]
  /\ IF user = NoUser THEN Reject(401, "")
     ELSE IF ~ \E k \in cards : k.id = cardId THEN Reject(404, "")
     ELSE LET card == CardRow(cardId)
              access == checkBoardAccess(card.boardId, user)
              shifted == IF card.columnId = columnId
                           THEN MoveWithinColumn(cards, columnId, card.position, Val(position))
                           ELSE MoveAcrossColumns(cards, card.columnId, card.position,
                                                  columnId, Val(position))
          IN
          IF ~access.hasAccess \/ access.role = "" THEN Reject(403, Resolved(access))
          ELSE IF ~canEdit(access.role) THEN Reject(403, access.role)
          ELSE IF columnId = 0 THEN Reject(400, access.role)
          ELSE IF ~IsDefined(position) \/ Val(position) < 0 THEN Reject(400, access.role)
          ELSE IF ~TargetColumnFound(columnId, card.boardId) THEN Reject(404, access.role)
          ELSE /\ cards' = PlaceCard(shifted, cardId, columnId, Val(position))
               /\ activities' = logActivity(activities, boards, card.boardId, cardId,
                                            user, "card_moved",
                                            <<card.title, ColumnName(card.columnId),
                                              ColumnName(columnId)>>)
               /\ resp' = 200
               /\ role' = access.role
               /\ UNCHANGED <<boards, members, teamMembers, columns, nextColumn, nextCard>>

\* POST /cards/[cardId]/move
MoveCard(user, cardId, columnId, position) ==
  /\ req' = [NoRequest EXCEPT !.op = "moveCard", !.user = user, !.cardId = cardId,
                              !.columnId = columnId]
  /\ IF user = NoUser THEN Reject(401, "")
     ELSE IF ~ \E k \in cards : k.id = cardId THEN Reject(404, "")
     ELSE LET card == CardRow(cardId)
              access == checkBoardAccess(card.boardId, user)
              shifted == IF card.columnId = columnId
                           THEN MoveWithinColumn(cards, columnId, card.position, Val(position))
                           ELSE MoveAcrossColumns(cards, card.columnId, card.position,
                                                  columnId, Val(position))
              fromColumnName == ColumnName(card.columnId)
              toColumnName == ColumnName(columnId)
          IN
          IF ~access.hasAccess \/ access.role = "" THEN Reject(403, Resolved(access))
          ELSE IF ~canEdit(access.role) THEN Reject(403, access.role)
          ELSE IF columnId = 0 THEN Reject(400, access.role)
          ELSE IF ~IsDefined(position) \/ Val(position) < 0 THEN Reject(400, access.role)
          ELSE IF ~TargetColumnFound(columnId, card.boardId) THEN Reject(404, access.role)
          ELSE IF card.columnId = columnId /\ card.position = Val(position)
            THEN Reject(200, access.role)
          ELSE /\ cards' = PlaceCard(shifted, cardId, columnId, Val(position))
               /\ activities' = IF fromColumnName # toColumnName
                                  THEN logActivity(activities, boards, card.boardId, cardId,
                                                   user, "card_moved",
                                                   <<card.title, fromColumnName, toColumnName>>)
                                  ELSE activities
               /\ resp' = 200
               /\ role' = access.role
               /\ UNCHANGED <<boards, members, teamMembers, columns, nextColumn, nextCard>>

(* ----------------------------- board routes ---------------------------- *)
\* UPDATE kanban_boards SET ... WHERE id = boardId
ApplyBoardUpdates(bds, boardId, name, description, backgroundColor, isArchived) ==
  {IF b.id = boardId
     THEN [b EXCEPT !.name = IF IsDefined(name) THEN Trim(Val(name)) ELSE @,
                    !.description = IF IsDefined(description) THEN Trim(Val(description)) ELSE @,
                    !.backgroundColor = IF IsDefined(backgroundColor)
                                          THEN Val(backgroundColor) ELSE @,
                    !.isArchived = IF IsDefined(isArchived) THEN Val(isArchived) ELSE @]
     ELSE b : b \in bds}

\* PATCH /boards/[boardId]
UpdateBoard(user, boardId, name, description, backgroundColor, isArchived) ==
  LET access == checkBoardAccess(boardId, user)
      logged == IF IsDefined(isArchived)
                  THEN logActivity(activities, boards, boardId, 0, user, "board_archived",
                                   <<BoolText(Val(isArchived))>>)
                ELSE IF (IsDefined(name) /\ Val(name) # "") \/ IsDefined(description)
                        \/ (IsDefined(backgroundColor) /\ Val(backgroundColor) # "")
                  THEN logActivity(activities, boards, boardId, 0, user, "board_updated", <<>>)
                ELSE activities
  IN
  /\ req' = [NoRequest EXCEPT !.op = "updateBoard", !.user = user, !.boardId = boardId]
  /\ IF user = NoUser THEN Reject(401, "")
     ELSE IF ~access.hasAccess \/ access.role = "" THEN Reject(404, Resolved(access))
     ELSE IF ~canModifyBoardSettings(access.role) THEN Reject(403, access.role)
     ELSE IF IsDefined(name) /\ Trim(Val(name)) = "" THEN Reject(400, access.role)
     ELSE IF IsDefined(isArchived) /\ ~canDelete(access.role) THEN Reject(403, access.role)
     ELSE /\ boards' = ApplyBoardUpdates(boards, boardId, name, description,
                                         backgroundColor, isArchived)
          /\ activities' = logged
          /\ resp' = 200
          /\ role' = access.role
          /\ UNCHANGED <<members, teamMembers, columns, cards, nextColumn, nextCard>>

\* DELETE FROM kanban_boards WHERE id = boardId: members, columns, cards and
\* activities reference the board with ON DELETE CASCADE
RemoveBoard(bds, boardId) == {b \in bds : b.id # boardId}
CascadeByBoard(rows, boardId) == {r \in rows : r.boardId # boardId}
\* an activity table that does not reference the board
CascadeActivities_Kept(acts, boardId) == acts

CascadeActivities(acts, boardId) == SelectSeq(acts, LAMBDA a : a.boardId # boardId)

\* DELETE /boards/[boardId]
DeleteBoard(user, boardId) ==
  LET access == checkBoardAccess(boardId, user) IN
  /\ req' = [NoRequest EXCEPT !.op = "deleteBoard", !.user = user, !.boardId = boardId]
  /\ IF user = NoUser THEN Reject(401, "")
     ELSE IF ~access.hasAccess \/ access.role = "" THEN Reject(404, Resolved(access))
     ELSE IF ~canDelete(access.role) THEN Reject(403, access.role)
     ELSE /\ boards' = RemoveBoard(boards, boardId)
          /\ members' = CascadeByBoard(members, boardId)
          /\ columns' = CascadeByBoard(columns, boardId)
          /\ cards' = CascadeByBoard(cards, boardId)
          /\ activities' = CascadeActivities(
                              logActivity(activities, boards, boardId, 0, user,
                                          "board_deleted", <<BoardRow(boardId).name>>),
                              boardId)
          /\ resp' = 200
          /\ role' = access.role
          /\ UNCHANGED <<teamMembers, nextColumn, nextCard>>

\* GET /boards/[boardId]: answers the board and the caller's role
GetBoard(user, boardId) ==
  LET access == checkBoardAccess(boardId, user) IN
  /\ req' = [NoRequest EXCEPT !.op = "getBoard", !.user = user, !.boardId = boardId]
  /\ IF user = NoUser THEN Reject(401, "")
     ELSE IF ~access.hasAccess THEN Reject(404, Resolved(access))
     ELSE Reject(200, access.role)

(* --------------------------- initial database -------------------------- *)
\* Two boards as POST /boards leaves them when created from templates:
\* b1 is u1's personal board, b2 is u2's board of team t1.  Columns and
\* cards are numbered 0.. in template order, and each creation logged
\* board_created.  u2 holds an explicit viewer row on b1; u3 is a member of
\* t1 and holds an explicit viewer row on b2; u1 is a member of t1.
Board(id, createdBy, type, teamId) ==
  [id |-> id, name |-> "Board", description |-> "", type |-> type, teamId |-> teamId,
   createdBy |-> createdBy, backgroundColor |-> "#ffffff", isArchived |-> FALSE]
Column(id, boardId, name, position) ==
  [id |-> id, boardId |-> boardId, name |-> name, position |-> position,
   limit |-> 0, color |-> "#gray"]
Card(id, columnId, boardId, position) ==
  [id |-> id, columnId |-> columnId, boardId |-> boardId, title |-> "Task",
   position |-> position, isArchived |-> FALSE]
Activity(boardId, userId, type, meta) ==
  [boardId |-> boardId, cardId |-> 0, userId |-> userId, type |-> type, meta |-> meta]

InitBoards == {Board("b1", "u1", "personal", NoTeam), Board("b2", "u2", "team", "t1")}
InitMembers == {[boardId |-> "b1", userId |-> "u2", role |-> "viewer"],
                [boardId |-> "b2", userId |-> "u3", role |-> "viewer"]}
InitTeamMembers == {[teamId |-> "t1", userId |-> "u1"], [teamId |-> "t1", userId |-> "u2"],
                    [teamId |-> "t1", userId |-> "u3"]}
InitActivities == <<Activity("b1", "u1", "board_created", <<"Board">>),
                    Activity("b2", "u2", "board_created", <<"Board">>)>>

InitCommon ==
  /\ boards = InitBoards
  /\ members = InitMembers
  /\ teamMembers = InitTeamMembers
  /\ activities = InitActivities
  /\ req = NoRequest
  /\ resp = 0
  /\ role = ""
  /\ served = 0
  /\ inflight = <<>>
  /\ observed = {}
  /\ listed = {}
  /\ logDown = FALSE

\* one more request is served
Serve ==
  /\ served < MaxRequests
  /\ served' = served + 1
  /\ UNCHANGED <<inflight, observed, listed, logDown>>

ColumnIds == 1..MaxColumns
CardIds == 1..MaxCards
Positions == {Undefined} \cup {Some(p) : p \in 0..MaxPos}
ColumnNameOf(id) == IF id % 2 = 1 THEN "Todo" ELSE "Done"

\* Columns 1..n as templates create them: on each board, positions 0.. in id order.
TemplateColumns(n, boardOf) ==
  {Column(c, boardOf[c], ColumnNameOf(c),
          Cardinality({j \in 1..(c - 1) : boardOf[j] = boardOf[c]})) : c \in 1..n}

\* Cards 1..n as templates create them: in each column, positions 0.. in id order.
TemplateCards(n, colOf, cols) ==
  {Card(k, colOf[k], (CHOOSE c \in cols : c.id = colOf[k]).boardId,
        Cardinality({j \in 1..(k - 1) : colOf[j] = colOf[k]})) : k \in 1..n}

(* ------------------- serial column requests (SpecCols) ----------------- *)
\* the id lists a reorder request carries: every list of one or two ids, and
\* every list of three ids the database has handed out
ReorderLists ==
  {<<a>> : a \in ColumnIds} \cup {<<a, b>> : a, b \in ColumnIds}
  \cup {<<a, b, c>> : a, b, c \in {x \in ColumnIds : x < nextColumn}}

\* every way the templates spread columns 1..MaxColumns-1 over the two
\* boards, one card in each column
InitCols ==
  /\ InitCommon
  /\ \E boardOf \in [1..(MaxColumns - 1) -> BoardIds] :
       columns = TemplateColumns(MaxColumns - 1, boardOf)
  /\ cards = {Card(c.id, c.id, c.boardId, 0) : c \in columns}
  /\ nextColumn = MaxColumns
  /\ nextCard = MaxColumns

\* u1 may edit both boards: it created b1 and is a member of b2's team
NextCols ==
  \/ \E b \in BoardIds, p \in Positions :
       Serve /\ CreateColumn("u1", b, "Todo", p, Undefined, Undefined)
  \/ \E b \in BoardIds, c \in ColumnIds :
       Serve /\ UpdateColumn("u1", b, c, Some("Done"), Some(3), Undefined)
  \/ \E b \in BoardIds, c \in ColumnIds :
       Serve /\ DeleteColumn("u1", b, c)
  \/ \E b \in BoardIds, ids \in ReorderLists :
       Serve /\ ReorderColumns("u1", b, ids)

SpecCols == InitCols /\ [][NextCols]_vars

(* -------------------- serial card requests (SpecCards) ----------------- *)
InitColumns == {Column(1, "b1", "Todo", 0), Column(2, "b1", "Done", 1),
                Column(3, "b2", "Todo", 0)}

\* every way a template spreads cards 1..MaxCards-1 over b1's two columns
InitCards ==
  /\ InitCommon
  /\ columns = InitColumns
  /\ nextColumn = 4
  /\ \E colOf \in [1..(MaxCards - 1) -> {1, 2}] :
       cards = TemplateCards(MaxCards - 1, colOf, InitColumns)
  /\ nextCard = MaxCards

\* u1 may edit both boards
NextCards ==
  \/ \E b \in BoardIds, c \in 1..3, p \in Positions :
       Serve /\ CreateCard("u1", b, c, "Task", p)
  \/ \E k \in CardIds, a \in BOOLEAN :
       Serve /\ UpdateCard("u1", k, Undefined, Some(a))
  \/ \E k \in CardIds :
       Serve /\ DeleteCard("u1", k)
  \/ \E k \in CardIds, c \in ColumnIds, p \in Positions :
       Serve /\ MoveCard("u1", k, c, p)

SpecCards == InitCards /\ [][NextCards]_vars

(* --------------- every route, every caller (SpecPerm) ------------------ *)
Callers == Users \cup {NoUser}
RequestBoards == BoardIds \cup {GhostBoard}

\* b1 holds columns 1 and 2, b2 holds column 3, one card in each column
InitPerm ==
  /\ InitCommon
  /\ columns = InitColumns
  /\ cards = {Card(c.id, c.id, c.boardId, 0) : c \in InitColumns}
  /\ nextColumn = 4
  /\ nextCard = 4

NextPerm ==
  \/ \E u \in Callers, b \in RequestBoards, n \in {"", "Todo"}, p \in {Undefined, Some(0)} :
       Serve /\ CreateColumn(u, b, n, p, Undefined, Undefined)
  \/ \E u \in Callers, b \in RequestBoards, c \in ColumnIds, n \in {Some(" "), Some("Done")} :
       Serve /\ UpdateColumn(u, b, c, n, Undefined, Some("#blue"))
  \/ \E u \in Callers, b \in RequestBoards, c \in ColumnIds :
       Serve /\ DeleteColumn(u, b, c)
  \/ \E u \in Callers, b \in RequestBoards, ids \in {<<>>, <<2, 1>>, <<3>>} :
       Serve /\ ReorderColumns(u, b, ids)
  \/ \E u \in Callers, b \in RequestBoards, c \in 0..3, t \in {"", "Task"} :
       Serve /\ CreateCard(u, b, c, t, Undefined)
  \/ \E u \in Callers, k \in CardIds, t \in {Undefined, Some(" "), Some(" Todo")}, a \in {Undefined, Some(TRUE)} :
       Serve /\ UpdateCard(u, k, t, a)
  \/ \E u \in Callers, k \in CardIds :
       Serve /\ DeleteCard(u, k)
  \/ \E u \in Callers, k \in CardIds, c \in 0..3, p \in {Undefined, Some(-1), Some(0)} :
       Serve /\ MoveCard(u, k, c, p)
  \/ \E u \in Callers, b \in RequestBoards, n \in {Undefined, Some(" "), Some("Plan")}, d \in {Undefined, Some("text")}, a \in {Undefined, Some(TRUE)} :
       Serve /\ UpdateBoard(u, b, n, d, Undefined, a)
  \/ \E u \in Callers, b \in RequestBoards :
       Serve /\ DeleteBoard(u, b)
  \/ \E u \in Callers, b \in RequestBoards :
       Serve /\ GetBoard(u, b)

SpecPerm == InitPerm /\ [][NextPerm]_vars

(* ---------------- role resolution on any board (SpecAccess) ------------ *)
\* One board b1 in every shape POST /boards gives it (personal without a team,
\* or a board of team t1), created by any user, with any explicit member rows
\* (at most one for a user) and any membership of team t1.
MemberRowsOf(roleOf) ==
  {[boardId |-> "b1", userId |-> u, role |-> roleOf[u]] : u \in {x \in Users : roleOf[x] # ""}}

InitAccess ==
  /\ \E creator \in Users, shape \in {<<"personal", NoTeam>>, <<"team", "t1">>} :
       boards = {Board("b1", creator, shape[1], shape[2])}
  /\ \E roleOf \in [Users -> BoardRole \cup {""}] : members = MemberRowsOf(roleOf)
  /\ \E team \in SUBSET Users : teamMembers = {[teamId |-> "t1", userId |-> u] : u \in team}
  /\ columns = {}
  /\ cards = {}
  /\ activities = <<>>
  /\ nextColumn = 1
  /\ nextCard = 1
  /\ req = NoRequest
  /\ resp = 0
  /\ role = ""
  /\ served = 0
  /\ inflight = <<>>
  /\ observed = {}
  /\ listed = {}
  /\ logDown = FALSE

NextAccess ==
  \/ \E u \in Callers, b \in {"b1", GhostBoard} :
       Serve /\ GetBoard(u, b)
  \/ \E u \in Callers, b \in {"b1", GhostBoard} :
       Serve /\ DeleteBoard(u, b)

SpecAccess == InitAccess /\ [][NextAccess]_vars

(* ------------- the move handler, statement by statement ---------------- *)
\* The handler runs its database statements one after the other, outside any
\* transaction, so the statements of two requests interleave.  A request in
\* flight holds what the handler holds in its local variables: the body, the
\* card row it read in step 2, and where it is.  inRange records whether the
\* position was within the target column when the card was read; the handler
\* does not compute it.
MoveRequest(user, cardId, columnId, position) ==
  [pc |-> "start", user |-> user, cardId |-> cardId, columnId |-> columnId,
   position |-> position, card |-> Undefined, inRange |-> FALSE, status |-> 0]

Finish(r, status) ==
  inflight' = [inflight EXCEPT ![r].pc = "done", ![r].status = status]

\* steps 1-5 and the test for an unchanged place: the reads of the handler
MoveRead(r) ==
  LET q == inflight[r] IN
  /\ q.pc = "start"
  /\ IF q.user = NoUser THEN Finish(r, 401)
     ELSE IF ~ \E k \in cards : k.id = q.cardId THEN Finish(r, 404)
     ELSE LET card == CardRow(q.cardId)
              access == checkBoardAccess(card.boardId, q.user)
          IN
          IF ~access.hasAccess \/ access.role = "" THEN Finish(r, 403)
          ELSE IF ~canEdit(access.role) THEN Finish(r, 403)
          ELSE IF q.columnId = 0 THEN Finish(r, 400)
          ELSE IF q.position < 0 THEN Finish(r, 400)
          ELSE IF ~TargetColumnFound(q.columnId, card.boardId) THEN Finish(r, 404)
          ELSE IF card.columnId = q.columnId /\ card.position = q.position
            THEN Finish(r, 200)
          ELSE inflight' = [inflight EXCEPT
                 ![r].pc = "shift",
                 ![r].card = Some(card),
                 ![r].inRange = q.position <=
                                  Cardinality(LiveCardsOf(cards, q.columnId) \ {card})]
  /\ UNCHANGED <<dbvars, req, resp, role, served, observed, listed, logDown>>

\* step 6, first UPDATE: the range shift of a same-column move, or the
\* compaction of the source column
MoveShift(r) ==
  LET q == inflight[r]
      card == Val(q.card)
  IN
  /\ q.pc = "shift"
  /\ IF card.columnId = q.columnId
       THEN /\ cards' = MoveWithinColumn(cards, q.columnId, card.position, q.position)
            /\ inflight' = [inflight EXCEPT ![r].pc = "place"]
       ELSE /\ cards' = ShiftCardsFrom(cards, card.columnId, card.position + 1, -1)
            /\ inflight' = [inflight EXCEPT ![r].pc = "expand"]
  /\ UNCHANGED <<boards, members, teamMembers, columns, activities, nextColumn, nextCard,
                 req, resp, role, served, observed, listed, logDown>>

\* step 6, second UPDATE of a cross-column move: the target column makes room
MoveExpand(r) ==
  LET q == inflight[r] IN
  /\ q.pc = "expand"
  /\ cards' = ShiftCardsFrom(cards, q.columnId, q.position, 1)
  /\ inflight' = [inflight EXCEPT ![r].pc = "place"]
  /\ UNCHANGED <<boards, members, teamMembers, columns, activities, nextColumn, nextCard,
                 req, resp, role, served, observed, listed, logDown>>

\* step 7: the moved card is written
MovePlace(r) ==
  LET q == inflight[r] IN
  /\ q.pc = "place"
  /\ cards' = PlaceCard(cards, q.cardId, q.columnId, q.position)
  /\ inflight' = [inflight EXCEPT ![r].pc = "log"]
  /\ UNCHANGED <<boards, members, teamMembers, columns, activities, nextColumn, nextCard,
                 req, resp, role, served, observed, listed, logDown>>

\* step 8: card_moved is logged when the column names differ
MoveLog(r) ==
  LET q == inflight[r]
      card == Val(q.card)
      fromColumnName == ColumnName(card.columnId)
      toColumnName == ColumnName(q.columnId)
  IN
  /\ q.pc = "log"
  /\ UNCHANGED <<boards, members, teamMembers, columns, cards, nextColumn, nextCard,
                 req, resp, role, served, observed, listed, logDown>>
  /\ activities' = IF fromColumnName # toColumnName
                     THEN logActivity(activities, boards, card.boardId, q.cardId, q.user,
                                      "card_moved", <<card.title, fromColumnName, toColumnName>>)
                     ELSE activities
  /\ Finish(r, 200)

\* GET /boards/[boardId] with its answer: the non-archived cards of the board
ObserveBoard(user, boardId) ==
  /\ GetBoard(user, boardId)
  /\ observed' = IF resp' = 200
                   THEN {k \in cards : k.boardId = boardId /\ ~k.isArchived}
                   ELSE observed
  /\ UNCHANGED <<served, inflight, listed, logDown>>

(* ------------- two concurrent move requests (SpecMoves) ---------------- *)
Movers == {1, 2}

\* the moves a client showing the columns of b1 can ask for
MoveRequests ==
  {MoveRequest("u1", k, c, p) : k \in 1..(MaxCards - 1), c \in {1, 2}, p \in 0..MaxPos}

InitMoves ==
  /\ boards = InitBoards
  /\ members = InitMembers
  /\ teamMembers = InitTeamMembers
  /\ activities = InitActivities
  /\ req = NoRequest
  /\ resp = 0
  /\ role = ""
  /\ served = 0
  /\ observed = {}
  /\ listed = {}
  /\ logDown = FALSE
  /\ columns = InitColumns
  /\ nextColumn = 4
  /\ \E colOf \in [1..(MaxCards - 1) -> {1, 2}] :
       cards = TemplateCards(MaxCards - 1, colOf, InitColumns)
  /\ nextCard = MaxCards

InitTwoMoves ==
  /\ InitMoves
  /\ \E q \in [Movers -> MoveRequests] : inflight = q

NextMoves ==
  \/ \E r \in DOMAIN inflight : MoveRead(r)
  \/ \E r \in DOMAIN inflight : MoveShift(r)
  \/ \E r \in DOMAIN inflight : MoveExpand(r)
  \/ \E r \in DOMAIN inflight : MovePlace(r)
  \/ \E r \in DOMAIN inflight : MoveLog(r)

SpecMoves == InitTwoMoves /\ [][NextMoves]_vars

(* ------ a cross-column move and a reader of the board (SpecObserve) ----- *)
\* one request in flight moves a card to the other column, at a position
\* within that column
InitObserve ==
  /\ InitMoves
  /\ \E q \in MoveRequests :
       /\ \E k \in cards : /\ k.id = q.cardId /\ k.columnId # q.columnId
                           /\ q.position <= Cardinality(LiveCardsOf(cards, q.columnId))
       /\ inflight = [r \in {1} |-> q]

NextObserve ==
  \/ MoveRead(1)
  \/ MoveShift(1)
  \/ MoveExpand(1)
  \/ MovePlace(1)
  \/ MoveLog(1)
  \/ ObserveBoard("u1", "b1")

SpecObserve == InitObserve /\ [][NextObserve]_vars

(* ------- a move request whose statements may fail (SpecFail) ----------- *)
\* The database statement the handler is about to run throws: the catch
\* block of the handler answers 500.  The statements already run were each
\* committed on their own and stay as they are.
MoveFail(r) ==
  /\ inflight[r].pc \in {"start", "shift", "expand", "place"}
  /\ Finish(r, 500)
  /\ UNCHANGED <<dbvars, req, resp, role, served, observed, listed, logDown>>

InitFail ==
  /\ InitMoves
  /\ \E q \in MoveRequests : inflight = [r \in {1} |-> q]

NextFail ==
  \/ MoveRead(1)
  \/ MoveShift(1)
  \/ MoveExpand(1)
  \/ MovePlace(1)
  \/ MoveLog(1)
  \/ MoveFail(1)

SpecFail == InitFail /\ [][NextFail]_vars

(* ------- card requests served one after the other (SpecSerial) --------- *)
\* one more request of a sequence of MaxRequests + 1 requests is served
ServeSerial ==
  /\ served < MaxRequests + 1
  /\ served' = served + 1
  /\ UNCHANGED <<inflight, observed, listed, logDown>>

\* u1 deletes, archives, restores and creates cards; a card is created
\* without a position
NextSerial ==
  \/ \E k \in CardIds :
       ServeSerial /\ DeleteCard("u1", k)
  \/ \E k \in CardIds, a \in BOOLEAN :
       ServeSerial /\ UpdateCard("u1", k, Undefined, Some(a))
  \/ \E c \in {1, 2} :
       ServeSerial /\ CreateCard("u1", "b1", c, "Task", Undefined)

SpecSerial == InitCards /\ [][NextSerial]_vars

(* ------------------- GET /boards (SpecList) ---------------------------- *)
\* step 4: the conditions every query of the handler carries; teamId is ""
\* when the query string has none
MatchesConditions(b, type, teamId, isArchived) ==
  /\ b.isArchived = isArchived
  /\ type # "all" => b.type = type
  /\ teamId # "" => b.teamId = teamId

\* step 5: the boards the caller created
OwnedBoards(userId, type, teamId, isArchived) ==
  {b \in boards : b.createdBy = userId /\ MatchesConditions(b, type, teamId, isArchived)}

\* step 5: the boards joined to a member row of the caller
MembershipBoards(userId, type, teamId, isArchived) ==
  {b \in boards : /\ \E m \in members : m.boardId = b.id /\ m.userId = userId
                  /\ MatchesConditions(b, type, teamId, isArchived)}

\* team boards that are looked up only under the filter "team"
TeamBoards_TeamFilterOnly(userId, type, teamId, isArchived) ==
  IF type = "team"
    THEN {b \in boards : /\ b.type = "team"
                         /\ [teamId |-> b.teamId, userId |-> userId] \in teamMembers
                         /\ MatchesConditions(b, type, teamId, isArchived)}
    ELSE {}

\* step 5: for the filters "team" and "all", the team boards of the caller's teams
TeamBoards(userId, type, teamId, isArchived) ==
  IF type = "team" \/ type = "all"
    THEN {b \in boards : /\ b.type = "team"
                         /\ [teamId |-> b.teamId, userId |-> userId] \in teamMembers
                         /\ MatchesConditions(b, type, teamId, isArchived)}
    ELSE {}

\* GET /boards?type=&teamId=&isArchived=
ListBoards(user, type, teamId, isArchived) ==
  /\ req' = [NoRequest EXCEPT !.op = "listBoards", !.user = user]
  /\ served < MaxRequests
  /\ served' = served + 1
  /\ IF user = NoUser
       THEN /\ resp' = 401
            /\ listed' = {}
       ELSE /\ resp' = 200
            /\ listed' = {b.id : b \in OwnedBoards(user, type, teamId, isArchived)
                                       \cup MembershipBoards(user, type, teamId, isArchived)
                                       \cup TeamBoards(user, type, teamId, isArchived)}
  /\ role' = ""
  /\ UNCHANGED <<dbvars, inflight, observed, logDown>>

BoardFilters == {"all", "personal", "team"}

\* One board b1 in every shape POST /boards and PATCH /boards/[boardId] give
\* it (archived or not), with any member rows and any membership of team t1.
InitList ==
  /\ \E creator \in Users, shape \in {<<"personal", NoTeam>>, <<"team", "t1">>},
        archived \in BOOLEAN :
       boards = {[Board("b1", creator, shape[1], shape[2]) EXCEPT !.isArchived = archived]}
  /\ \E roleOf \in [Users -> BoardRole \cup {""}] : members = MemberRowsOf(roleOf)
  /\ \E team \in SUBSET Users : teamMembers = {[teamId |-> "t1", userId |-> u] : u \in team}
  /\ columns = {}
  /\ cards = {}
  /\ activities = <<>>
  /\ nextColumn = 1
  /\ nextCard = 1
  /\ req = NoRequest
  /\ resp = 0
  /\ role = ""
  /\ served = 0
  /\ inflight = <<>>
  /\ observed = {}
  /\ listed = {}
  /\ logDown = FALSE

NextList ==
  \E u \in Callers, type \in BoardFilters, teamId \in {NoTeam, "t1"}, isArchived \in BOOLEAN :
    ListBoards(u, type, teamId, isArchived)

SpecList == InitList /\ [][NextList]_vars

(* ------- requests whose activity insert may fail (SpecLog) ------------- *)
\* one more request is served; its INSERT into kanban_activities, if it runs
\* one, throws or not
ServeLog ==
  /\ served < MaxRequests
  /\ served' = served + 1
  /\ logDown' \in BOOLEAN
  /\ UNCHANGED <<inflight, observed, listed>>

\* what a request of a route that writes an activity carries
LogRequest(op, user, boardId, columnId, cardId) ==
  [op |-> op, user |-> user, boardId |-> boardId, columnId |-> columnId, cardId |-> cardId]

LogRequests ==
  {LogRequest(op, u, b, 0, 0) :
     op \in {"createColumn", "reorderColumns", "updateBoard", "deleteBoard"},
     u \in Callers, b \in BoardIds}
  \cup {LogRequest(op, u, b, c, 0) :
          op \in {"deleteColumn", "createCard"}, u \in Callers, b \in BoardIds, c \in 1..3}
  \cup {LogRequest(op, u, "", 0, k) :
          op \in {"updateCard", "deleteCard"}, u \in Callers, k \in 1..3}
  \cup {LogRequest("moveCard", u, "", c, k) : u \in Callers, c \in 1..3, k \in 1..3}

\* the handler of the route, run on the request
Handle(q) ==
  CASE q.op = "createColumn" ->
         CreateColumn(q.user, q.boardId, "Todo", Undefined, Undefined, Undefined)
    [] q.op = "deleteColumn" -> DeleteColumn(q.user, q.boardId, q.columnId)
    [] q.op = "reorderColumns" -> ReorderColumns(q.user, q.boardId, <<2, 1>>)
    [] q.op = "createCard" -> CreateCard(q.user, q.boardId, q.columnId, "Task", Undefined)
    [] q.op = "updateCard" -> UpdateCard(q.user, q.cardId, Undefined, Some(TRUE))
    [] q.op = "deleteCard" -> DeleteCard(q.user, q.cardId)
    [] q.op = "moveCard" -> MoveCard(q.user, q.cardId, q.columnId, Some(0))
    [] q.op = "updateBoard" ->
         UpdateBoard(q.user, q.boardId, Some("Plan"), Undefined, Undefined, Undefined)
    [] q.op = "deleteBoard" -> DeleteBoard(q.user, q.boardId)

NextLog == \E q \in LogRequests : ServeLog /\ Handle(q)

SpecLog == InitPerm /\ [][NextLog]_vars

(* ------- moves on a board with two columns of one name (SpecNames) ----- *)
\* POST /boards/[boardId]/columns accepts any non-empty name: b1 holds a
\* second column named "Todo"
NamedColumns == {Column(1, "b1", "Todo", 0), Column(2, "b1", "Done", 1),
                 Column(3, "b1", "Todo", 2)}

InitNames ==
  /\ InitCommon
  /\ columns = NamedColumns
  /\ nextColumn = 4
  /\ \E colOf \in [1..(MaxCards - 1) -> {1, 2, 3}] :
       cards = TemplateCards(MaxCards - 1, colOf, NamedColumns)
  /\ nextCard = MaxCards

NextNames ==
  \E k \in CardIds, c \in ColumnIds, p \in Positions :
    Serve /\ MoveCard("u1", k, c, p)

SpecNames == InitNames /\ [][NextNames]_vars

(* ------- card requests around an archived card (SpecLife) -------------- *)
\* PATCH /cards/[cardId] {isArchived: true} writes the flag and nothing
\* else: card 1 is archived, or not, where the template put it
InitLife ==
  /\ InitCommon
  /\ columns = InitColumns
  /\ nextColumn = 4
  /\ \E colOf \in [1..(MaxCards - 1) -> {1, 2}], archived \in BOOLEAN :
       cards = {IF k.id = 1 THEN [k EXCEPT !.isArchived = archived] ELSE k
                  : k \in TemplateCards(MaxCards - 1, colOf, InitColumns)}
  /\ nextCard = MaxCards

NextLife ==
  \/ \E k \in CardIds, c \in {1, 2}, p \in 0..MaxPos :
       ServeSerial /\ MoveCard("u1", k, c, Some(p))
  \/ \E k \in CardIds, a \in BOOLEAN :
       ServeSerial /\ UpdateCard("u1", k, Undefined, Some(a))
  \/ \E c \in {1, 2} :
       ServeSerial /\ CreateCard("u1", "b1", c, "Task", Undefined)
  \/ \E k \in CardIds :
       ServeSerial /\ DeleteCard("u1", k)

SpecLife == InitLife /\ [][NextLife]_vars

(* ------- creates, moves and deletes in sequence (SpecChurn) ------------ *)
\* u1 creates cards without a position, moves cards to any position that is
\* not negative, and deletes cards; no card is archived
NextChurn ==
  \/ \E c \in {1, 2} :
       ServeSerial /\ CreateCard("u1", "b1", c, "Task", Undefined)
  \/ \E k \in CardIds, c \in {1, 2}, p \in 0..MaxPos :
       ServeSerial /\ MoveCard("u1", k, c, Some(p))
  \/ \E k \in CardIds :
       ServeSerial /\ DeleteCard("u1", k)

SpecChurn == InitCards /\ [][NextChurn]_vars

(* ------- boards created and updated in sequence (SpecBoards) ----------- *)
\* the columns a board gets when the request names no template
DefaultColumns(boardId, firstId) ==
  {[id |-> firstId, boardId |-> boardId, name |-> "To Do", position |-> 0,
    limit |-> 0, color |-> "#gray"],
   [id |-> firstId + 1, boardId |-> boardId, name |-> "In Progress", position |-> 1,
    limit |-> 0, color |-> "#blue"],
   [id |-> firstId + 2, boardId |-> boardId, name |-> "Done", position |-> 2,
    limit |-> 0, color |-> "#green"]}

\* a team reference stored as the request gives it, whatever the kind
StoredTeamId_AsGiven(type, teamId) ==
  IF IsDefined(teamId) THEN Val(teamId) ELSE NoTeam

\* step 6: teamId: type === "team" ? teamId : null
StoredTeamId(type, teamId) ==
  IF type = "team" THEN Val(teamId) ELSE NoTeam

\* POST /boards without templateId; an absent type is "personal"
CreateBoard(user, name, type, teamId) ==
  LET kind == IF IsDefined(type) THEN Val(type) ELSE "personal"
      noTeamId == ~IsDefined(teamId) \/ Val(teamId) = ""
      free == {i \in BoardIds : ~ \E b \in boards : b.id = i}
      id == CHOOSE i \in free : TRUE
      newBoard == [Board(id, user, kind, StoredTeamId(kind, teamId)) EXCEPT !.name = Trim(name)]
  IN
  /\ req' = [NoRequest EXCEPT !.op = "createBoard", !.user = user]
  /\ IF user = NoUser THEN Reject(401, "")
     ELSE IF name = "" \/ Trim(name) = "" THEN Reject(400, "")
     ELSE IF kind = "team" /\ noTeamId THEN Reject(400, "")
     ELSE IF kind = "team" /\ [teamId |-> Val(teamId), userId |-> user] \notin teamMembers
       THEN Reject(403, "")
     ELSE /\ free # {}
          /\ boards' = boards \cup {newBoard}
          /\ columns' = columns \cup DefaultColumns(id, nextColumn)
          /\ nextColumn' = nextColumn + 3
          /\ activities' = logActivity(activities, boards', id, 0, user, "board_created",
                                       <<newBoard.name>>)
          /\ resp' = 201
          /\ role' = ""
          /\ UNCHANGED <<members, teamMembers, cards, nextCard>>

\* an empty database; u1 and u2 are the members of team t1
InitBoardless ==
  /\ boards = {}
  /\ members = {}
  /\ teamMembers = {[teamId |-> "t1", userId |-> "u1"], [teamId |-> "t1", userId |-> "u2"]}
  /\ columns = {}
  /\ cards = {}
  /\ activities = <<>>
  /\ nextColumn = 1
  /\ nextCard = 1
  /\ req = NoRequest
  /\ resp = 0
  /\ role = ""
  /\ served = 0
  /\ inflight = <<>>
  /\ observed = {}
  /\ listed = {}
  /\ logDown = FALSE

NextBoards ==
  \/ \E u \in Callers, n \in {"", "Board"}, t \in {Undefined, Some("personal"), Some("team")},
        team \in {Undefined, Some(""), Some("t1")} :
       ServeSerial /\ CreateBoard(u, n, t, team)
  \/ \E u \in Callers, b \in BoardIds, n \in {Undefined, Some("Plan")},
        a \in {Undefined, Some(TRUE)} :
       ServeSerial /\ UpdateBoard(u, b, n, Some("text"), Some("#blue"), a)
  \/ \E u \in Callers, b \in BoardIds :
       ServeSerial /\ DeleteBoard(u, b)

SpecBoards == InitBoardless /\ [][NextBoards]_vars

(* ------- the delete-card handler, statement by statement (SpecDelete) -- *)
\* a delete request in flight: the session user, the card id of the URL, the
\* card row read in step 2 and where the handler is
DeleteRequest(user, cardId) ==
  [pc |-> "start", user |-> user, cardId |-> cardId, card |-> Undefined, status |-> 0]

\* steps 1-3: the reads of the handler
DeleteRead(r) ==
  LET q == inflight[r] IN
  /\ q.pc = "start"
  /\ IF q.user = NoUser THEN Finish(r, 401)
     ELSE IF ~ \E k \in cards : k.id = q.cardId THEN Finish(r, 404)
     ELSE LET card == CardRow(q.cardId)
              access == checkBoardAccess(card.boardId, q.user)
          IN
          IF ~access.hasAccess \/ access.role = "" THEN Finish(r, 403)
          ELSE IF ~canEdit(access.role) THEN Finish(r, 403)
          ELSE inflight' = [inflight EXCEPT ![r].pc = "log", ![r].card = Some(card)]
  /\ UNCHANGED <<dbvars, req, resp, role, served, observed, listed, logDown>>

\* step 4: card_deleted is logged, before the deletion
DeleteLog(r) ==
  LET q == inflight[r]
      card == Val(q.card)
  IN
  /\ q.pc = "log"
  /\ UNCHANGED <<boards, members, teamMembers, columns, cards, nextColumn, nextCard,
                 req, resp, role, served, observed, listed, logDown>>
  /\ activities' = logActivity(activities, boards, card.boardId, q.cardId, q.user,
                               "card_deleted", <<card.title>>)
  /\ inflight' = [inflight EXCEPT ![r].pc = "remove"]

\* step 5: the card row is deleted
DeleteRemove(r) ==
  LET q == inflight[r] IN
  /\ q.pc = "remove"
  /\ cards' = RemoveCard(cards, q.cardId)
  /\ Finish(r, 200)
  /\ UNCHANGED <<boards, members, teamMembers, columns, activities, nextColumn, nextCard,
                 req, resp, role, served, observed, listed, logDown>>

\* the DELETE statement throws: the catch block of the handler answers 500
DeleteFail(r) ==
  /\ inflight[r].pc = "remove"
  /\ Finish(r, 500)
  /\ UNCHANGED <<dbvars, req, resp, role, served, observed, listed, logDown>>

InitDelete ==
  /\ InitMoves
  /\ \E u \in Callers, k \in CardIds : inflight = [r \in {1} |-> DeleteRequest(u, k)]

NextDelete ==
  \/ DeleteRead(1)
  \/ DeleteLog(1)
  \/ DeleteRemove(1)
  \/ DeleteFail(1)

SpecDelete == InitDelete /\ [][NextDelete]_vars

(* ------- the create-card handler, statement by statement (SpecCreates) - *)
\* a create request in flight: the session user, the board of the URL, the
\* body, the position computed in step 5, the id of the inserted row and
\* where the handler is
CreateRequest(user, boardId, columnId, title, position) ==
  [pc |-> "start", user |-> user, boardId |-> boardId, columnId |-> columnId,
   title |-> title, position |-> position, newPosition |-> 0, newId |-> 0, status |-> 0]

\* steps 1-5: the checks and the read of the column's cards
CreateRead(r) ==
  LET q == inflight[r]
      access == checkBoardAccess(q.boardId, q.user)
      existing == LiveCardsOf(cards, q.columnId)
  IN
  /\ q.pc = "start"
  /\ IF q.user = NoUser THEN Finish(r, 401)
     ELSE IF ~access.hasAccess \/ access.role = "" THEN Finish(r, 404)
     ELSE IF ~canEdit(access.role) THEN Finish(r, 403)
     ELSE IF q.columnId = 0 THEN Finish(r, 400)
     ELSE IF q.title = "" \/ Trim(q.title) = "" THEN Finish(r, 400)
     ELSE IF ~ \E c \in columns : c.id = q.columnId /\ c.boardId = q.boardId
       THEN Finish(r, 404)
     ELSE inflight' = [inflight EXCEPT ![r].pc = "insert",
                         ![r].newPosition = NewCardPosition(existing, q.position)]
  /\ UNCHANGED <<dbvars, req, resp, role, served, observed, listed, logDown>>

\* step 6: the card row is inserted at the position computed in step 5
CreateInsert(r) ==
  LET q == inflight[r]
      newCard == [id |-> nextCard, columnId |-> q.columnId, boardId |-> q.boardId,
                  title |-> Trim(q.title), position |-> q.newPosition,
                  isArchived |-> FALSE]
  IN
  /\ q.pc = "insert"
  /\ nextCard <= MaxCards
  /\ cards' = cards \cup {newCard}
  /\ nextCard' = nextCard + 1
  /\ inflight' = [inflight EXCEPT ![r].pc = "log", ![r].newId = nextCard]
  /\ UNCHANGED <<boards, members, teamMembers, columns, activities, nextColumn,
                 req, resp, role, served, observed, listed, logDown>>

\* step 7 and the answer
CreateLog(r) ==
  LET q == inflight[r] IN
  /\ q.pc = "log"
  /\ UNCHANGED <<boards, members, teamMembers, columns, cards, nextColumn, nextCard,
                 req, resp, role, served, observed, listed, logDown>>
  /\ activities' = logActivity(activities, boards, q.boardId, q.newId, q.user,
                               "card_created", <<Trim(q.title)>>)
  /\ Finish(r, 201)

\* the creates two clients showing b1 can ask for
CreateRequests ==
  {CreateRequest(u, "b1", c, "Task", p) :
     u \in {"u1", "u2"}, c \in {1, 2}, p \in {Undefined, Some(0)}}

InitTwoCreates ==
  /\ boards = InitBoards
  /\ members = InitMembers
  /\ teamMembers = InitTeamMembers
  /\ activities = InitActivities
  /\ req = NoRequest
  /\ resp = 0
  /\ role = ""
  /\ served = 0
  /\ observed = {}
  /\ listed = {}
  /\ logDown = FALSE
  /\ columns = InitColumns
  /\ nextColumn = 4
  /\ \E colOf \in [1..(MaxCards - 2) -> {1, 2}] :
       cards = TemplateCards(MaxCards - 2, colOf, InitColumns)
  /\ nextCard = MaxCards - 1
  /\ \E q \in [Movers -> CreateRequests] : inflight = q

NextCreates ==
  \/ \E r \in DOMAIN inflight : CreateRead(r)
  \/ \E r \in DOMAIN inflight : CreateInsert(r)
  \/ \E r \in DOMAIN inflight : CreateLog(r)

SpecCreates == InitTwoCreates /\ [][NextCreates]_vars

(* ------------------------- ordering predicates ------------------------- *)
\* the non-archived positions of the column are exactly 0..N-1, each once
DenseCards(cds, columnId) ==
  LET live == LiveCardsOf(cds, columnId) IN
  /\ {k.position : k \in live} = 0..(Cardinality(live) - 1)
  /\ \A k1, k2 \in live : k1.position = k2.position => k1 = k2

\* the positions of the board's columns are exactly 0..N-1, each once
DenseColumns(cols, boardId) ==
  LET own == ColumnsOf(cols, boardId) IN
  /\ {c.position : c \in own} = 0..(Cardinality(own) - 1)
  /\ \A c1, c2 \in own : c1.position = c2.position => c1 = c2

\* the ids of the column's non-archived cards as GET /boards/[boardId] lists them
CardOrder(cds, columnId) ==
  LET s == CHOOSE o \in OrderedByPosition(LiveCardsOf(cds, columnId)) : TRUE
  IN [i \in 1..Len(s) |-> s[i].id]

Without(seq, x) == SelectSeq(seq, LAMBDA y : y # x)
InsertAt(seq, i, x) == SubSeq(seq, 1, i - 1) \o <<x>> \o SubSeq(seq, i, Len(seq))

(* ------------------------------- C10 ----------------------------------- *)
\* C10: a move of a non-archived card from dense column A to a different dense
\* column B of the same board, to a position dst with 0 <= dst <= N_B, leaves A
\* dense with its other cards in their previous order and B dense with the
\* moved card at dst and B's previous cards in their previous order.
C10_CrossColumnMove ==
  [][(req'.op = "moveCard" /\ resp' = 200) =>
     LET k == req'.cardId
         c == req'.columnId
     IN \A dst \in 0..MaxPos :
       (/\ MoveCard(req'.user, k, c, Some(dst))
        /\ \E card \in cards : card.id = k /\ ~card.isArchived /\ card.columnId # c
        /\ DenseCards(cards, CardRow(k).columnId)
        /\ DenseCards(cards, c)
        /\ dst <= Cardinality(LiveCardsOf(cards, c)))
       => LET a == CardRow(k).columnId IN
          /\ DenseCards(cards', a)
          /\ CardOrder(cards', a) = Without(CardOrder(cards, a), k)
          /\ DenseCards(cards', c)
          /\ CardOrder(cards', c) = InsertAt(CardOrder(cards, c), dst + 1, k)]_vars

\* a card was moved between two columns of b1: the source column lost it and
\* closed the gap, the target column holds it before a card that was there
C10_Witness ==
  /\ req.op = "moveCard" /\ resp = 200
  /\ Len(activities) = Len(InitActivities) + 1
  /\ activities[Len(activities)].type = "card_moved"
  /\ \E k, other, left \in cards :
       /\ k.id = req.cardId /\ k.columnId = req.columnId /\ ~k.isArchived
       /\ other.columnId = k.columnId /\ other.position = k.position + 1
       /\ left.columnId # k.columnId /\ left.boardId = k.boardId /\ left.position = 0
       /\ left.id > k.id
  /\ \A c \in columns : DenseCards(cards, c.id)

(* ------------------------------- C1 ------------------------------------ *)
\* C1: after any serial sequence of column requests, the positions of every
\* board's columns are exactly 0..N-1, without duplicates and without gaps.
C1_ColumnsDense == \A b \in BoardIds : DenseColumns(columns, b)

(* ------------------------------- C2 ------------------------------------ *)
\* C2: after any serial sequence of card requests, the positions of every
\* column's non-archived cards are exactly 0..N-1, without duplicates and
\* without gaps.
C2_CardsDense == \A c \in columns : DenseCards(cards, c.id)

(* ------------------------------- C3 ------------------------------------ *)
MutatingOps == {"createColumn", "updateColumn", "deleteColumn", "reorderColumns",
                "createCard", "updateCard", "deleteCard", "moveCard",
                "updateBoard", "deleteBoard"}
CardOps == {"updateCard", "deleteCard", "moveCard"}

\* the board a request is made on: the board of the card for the card routes,
\* the board the URL names for the others ("" when the card does not exist)
BoardOfRequest(r, cds) ==
  IF r.op \in CardOps
    THEN IF \E k \in cds : k.id = r.cardId
           THEN (CHOOSE k \in cds : k.id = r.cardId).boardId ELSE ""
    ELSE r.boardId

\* the role checkBoardAccess resolves for a user on a board ("none": no access)
ResolvedRole(boardId, userId) == Resolved(checkBoardAccess(boardId, userId))

\* C3: a mutating request made by a caller whose role on the request's board
\* is viewer is answered 403, writes no table and appends no activity.
C3_ViewerDenied ==
  [][(req'.op \in MutatingOps /\ ResolvedRole(BoardOfRequest(req', cards), req'.user) = "viewer")
       => (resp' = 403 /\ UNCHANGED dbvars)]_vars

\* a viewer's mutating request was answered 403 and the log holds no new entry
C3_Witness ==
  /\ req.op \in {"createCard", "moveCard", "deleteColumn", "deleteBoard"}
  /\ ResolvedRole(BoardOfRequest(req, cards), req.user) = "viewer"
  /\ resp = 403
  /\ activities = InitActivities

(* ------------------------------- C4 ------------------------------------ *)
\* C4: a column is changed or deleted only by a request of a caller who may
\* edit the column's board, whichever board the URL names.
C4_ColumnsOfOwnBoardOnly ==
  [][\A c \in columns :
       c \notin columns' => canEdit(ResolvedRole(c.boardId, req'.user))]_vars

(* ------------------------------- C5 ------------------------------------ *)
\* C5: the creator of a board resolves to owner, whatever explicit member row
\* and team membership the creator has.
C5_CreatorIsOwner ==
  (req.op = "getBoard" /\ req.user # NoUser
   /\ \E b \in boards : b.id = req.boardId /\ b.createdBy = req.user)
  => (role = "owner" /\ resp = 200)

\* the creator holds a viewer row and is no member of the team, and resolved to owner
C5_Witness ==
  /\ req.op = "getBoard" /\ role = "owner"
  /\ \E b \in boards : b.id = req.boardId /\ b.createdBy = req.user
  /\ [boardId |-> req.boardId, userId |-> req.user, role |-> "viewer"] \in members
  /\ [teamId |-> "t1", userId |-> req.user] \notin teamMembers

(* ------------------------------- C6 ------------------------------------ *)
\* C6: a caller who is not the creator and holds an explicit member row
\* resolves to exactly that row's role, team membership notwithstanding.
C6_MemberRowWins ==
  \A m \in members :
    (req.op = "getBoard" /\ req.user # NoUser
     /\ m.boardId = req.boardId /\ m.userId = req.user
     /\ \E b \in boards : b.id = req.boardId /\ b.createdBy # req.user)
    => (role = m.role /\ resp = 200)

\* a member of the team of a team board who holds a viewer row resolved to viewer
C6_Witness ==
  /\ req.op = "getBoard" /\ role = "viewer"
  /\ \E b \in boards : b.id = req.boardId /\ b.type = "team" /\ b.createdBy # req.user
                       /\ [teamId |-> b.teamId, userId |-> req.user] \in teamMembers
  /\ [boardId |-> req.boardId, userId |-> req.user, role |-> "viewer"] \in members

(* ------------------------------- C7 ------------------------------------ *)
IsTeamMemberOfBoard(boardId, userId) ==
  \E b \in boards : /\ b.id = boardId /\ b.type = "team"
                    /\ [teamId |-> b.teamId, userId |-> userId] \in teamMembers

\* C7: a caller who is neither the creator nor an explicit member resolves to
\* editor exactly when the board is a team board and the caller is a member
\* of its team, and to no access otherwise (a missing board included).
C7_TeamGrant ==
  (/\ req.op = "getBoard"
   /\ req.user # NoUser
   /\ ~ \E b \in boards : b.id = req.boardId /\ b.createdBy = req.user
   /\ ~ \E m \in members : m.boardId = req.boardId /\ m.userId = req.user)
  => /\ role \in {"editor", "none"}
     /\ role = "editor" <=> IsTeamMemberOfBoard(req.boardId, req.user)
     /\ role = "none" <=> resp = 404

\* a team member without a row resolved to editor
C7_Witness ==
  /\ req.op = "getBoard" /\ role = "editor" /\ resp = 200
  /\ IsTeamMemberOfBoard(req.boardId, req.user)
  /\ ~ \E m \in members : m.boardId = req.boardId /\ m.userId = req.user

(* ------------------------------- C8 ------------------------------------ *)
\* C8: a board update carrying isArchived, or a board delete, made by an
\* editor is answered 403 and leaves every table and the activity log as
\* they were.
C8_EditorCannotArchiveOrDelete ==
  [][(req'.op \in {"updateBoard", "deleteBoard"}
      /\ ResolvedRole(req'.boardId, req'.user) = "editor")
     => /\ req'.op = "deleteBoard" => (resp' = 403 /\ UNCHANGED dbvars)
        /\ \A n \in {Undefined, Some(" "), Some("Plan")}, d \in {Undefined, Some("text")},
              a \in BOOLEAN :
             UpdateBoard(req'.user, req'.boardId, n, d, Undefined, Some(a))
             => (resp' = 403 /\ UNCHANGED dbvars)]_vars

(* ------------------------------- C9 ------------------------------------ *)
\* C9: the permission predicates depend on the role alone: canEdit and
\* canModifyBoardSettings hold exactly for owner and editor; canDelete,
\* canArchive and canManageMembers hold exactly for owner; so a role that may
\* delete or archive may edit.  Stated for the role every request resolved.
C9_PermissionTable ==
  role \in BoardRole =>
    /\ canEdit(role) <=> role \in {"owner", "editor"}
    /\ canModifyBoardSettings(role) <=> role \in {"owner", "editor"}
    /\ canDelete(role) <=> role = "owner"
    /\ canArchive(role) <=> role = "owner"
    /\ canManageMembers(role) <=> role = "owner"
    /\ (canDelete(role) \/ canArchive(role)) => canEdit(role)

\* a handler resolved editor, applied canDelete to it and refused the board delete
C9_Witness ==
  /\ req.op = "deleteBoard"
  /\ role = "editor" /\ resp = 403

(* ------------------------------- C11 ----------------------------------- *)
\* C11: moving a non-archived card of a dense column of size N from its
\* position src to another position dst of the same column, 0 <= dst <= N-1,
\* leaves the column dense with the moved card at dst and the other cards in
\* their previous relative order (the rotation of the range between src and dst).
C11_SameColumnMove ==
  [][(req'.op = "moveCard" /\ resp' = 200) =>
     LET k == req'.cardId
         c == req'.columnId
     IN \A dst \in 0..MaxPos :
       (/\ MoveCard(req'.user, k, c, Some(dst))
        /\ \E card \in cards : /\ card.id = k /\ ~card.isArchived
                               /\ card.columnId = c /\ card.position # dst
        /\ DenseCards(cards, c)
        /\ dst <= Cardinality(LiveCardsOf(cards, c)) - 1)
       => /\ DenseCards(cards', c)
          /\ CardOrder(cards', c) = InsertAt(Without(CardOrder(cards, c), k), dst + 1, k)
          /\ \A card \in cards : card.columnId # c => card \in cards']_vars

\* card 1 was moved from the head of its column to position 2, behind cards 2 and 3
C11_Witness ==
  /\ req.op = "moveCard" /\ resp = 200 /\ req.cardId = 1
  /\ activities = InitActivities
  /\ \E k1, k2, k3 \in cards :
       /\ k1.id = 1 /\ k2.id = 2 /\ k3.id = 3
       /\ k1.columnId = req.columnId /\ k2.columnId = req.columnId /\ k3.columnId = req.columnId
       /\ k2.position = 0 /\ k3.position = 1 /\ k1.position = 2

(* ------------------------------- C12 ----------------------------------- *)
\* C12: a move request that names the column and the position the card is
\* already at changes no card row and appends no activity.
C12_NoOpMove ==
  [][req'.op = "moveCard" =>
     \A card \in cards, u \in Users :
       MoveCard(u, card.id, card.columnId, Some(card.position))
       => (cards' = cards /\ activities' = activities)]_vars

\* an editor's move of a card to the place it is at was answered 200
C12_Witness ==
  /\ req.op = "moveCard" /\ resp = 200
  /\ \E card \in cards : /\ card.id = req.cardId /\ card.columnId = req.columnId
                         /\ card.position = 1
  /\ activities = InitActivities
  /\ \A c \in columns : \A k1, k2 \in LiveCardsOf(cards, c.id) :
       k1.id < k2.id => k1.position < k2.position

(* ------------------------------- C13 ----------------------------------- *)
\* the lists that hold each id of the set exactly once
ListingsOf(S) ==
  {ids \in [1..Cardinality(S) -> S] : \A i, j \in 1..Cardinality(S) : i # j => ids[i] # ids[j]}

\* C13: after a reorder with a list holding each column id of the board
\* exactly once, the board's columns read in order of position are the
\* submitted list, at positions 0..N-1.
C13_ReorderRoundTrip ==
  [][(req'.op = "reorderColumns" /\ resp' = 200) =>
     LET b == req'.boardId IN
     \A ids \in ListingsOf({c.id : c \in ColumnsOf(columns, b)}) :
       ReorderColumns(req'.user, b, ids)
       => \A read \in OrderedByPosition(ColumnsOf(columns', b)) :
            /\ [i \in 1..Len(read) |-> read[i].id] = ids
            /\ \A i \in 1..Len(read) : read[i].position = i - 1]_vars

\* a board of three columns was reordered to 3, 1, 2
C13_Witness ==
  /\ req.op = "reorderColumns" /\ resp = 200
  /\ activities[Len(activities)].type = "column_reordered"
  /\ \E c1, c2, c3 \in ColumnsOf(columns, req.boardId) :
       /\ c1.id = 1 /\ c2.id = 2 /\ c3.id = 3
       /\ c3.position = 0 /\ c1.position = 1 /\ c2.position = 2

(* ------------------------------- C14 ----------------------------------- *)
\* C14: deleting a column of the board the request names removes the column
\* and its cards, leaves the board's other columns at positions 0..N-2 in
\* their previous relative order, and leaves every other card's row as it was.
C14_DeleteColumn ==
  [][(/\ req'.op = "deleteColumn" /\ resp' = 200
      /\ \E c \in columns : c.id = req'.columnId /\ c.boardId = req'.boardId) =>
     LET b == req'.boardId
         d == req'.columnId
         before == {c \in ColumnsOf(columns, b) : c.id # d}
         after == ColumnsOf(columns', b)
     IN
     /\ ~ \E c \in columns' : c.id = d
     /\ ~ \E k \in cards' : k.columnId = d
     /\ {c.id : c \in after} = {c.id : c \in before}
     /\ DenseColumns(columns', b)
     /\ \A x, y \in before : \A x2, y2 \in after :
          (x2.id = x.id /\ y2.id = y.id /\ x.position < y.position)
          => x2.position < y2.position
     /\ cards' = {k \in cards : k.columnId # d}]_vars

\* the middle one of three columns was deleted: 1 stays at 0, 3 moves to 1,
\* and the card of column 3 is where it was
C14_Witness ==
  /\ req.op = "deleteColumn" /\ resp = 200 /\ req.columnId = 2
  /\ {<<c.id, c.position>> : c \in ColumnsOf(columns, req.boardId)} = {<<1, 0>>, <<3, 1>>}
  /\ ~ \E k \in cards : k.columnId = 2
  /\ \E k \in cards : k.columnId = 3 /\ k.position = 0

(* ------------------------------- C15 ----------------------------------- *)
\* C15: a move request whose target column does not exist, or is a column of
\* another board than the card's, is rejected; no card row changes and no
\* activity is appended.
C15_MoveToForeignColumn ==
  [][req'.op = "moveCard" =>
     \A card \in cards :
       (/\ card.id = req'.cardId
        /\ ~ \E c \in columns : c.id = req'.columnId /\ c.boardId = card.boardId)
       => (resp' \in {400, 401, 403, 404} /\ cards' = cards /\ activities' = activities)]_vars

\* a move of a card of b1 into the column of b2 was answered 404, and so was
\* one into a column that does not exist
C15_Witness ==
  /\ req.op = "moveCard" /\ resp = 404
  /\ \E card \in cards : card.id = req.cardId /\ card.boardId = "b1"
  /\ \/ \E c \in columns : c.id = req.columnId /\ c.boardId = "b2"
     \/ req.columnId \in ColumnIds \ {c.id : c \in columns}

(* ------------------------------- C16 ----------------------------------- *)
\* C16: every card's board id is the board id of the column the card is in.
C16_CardBoardIsColumnBoard ==
  \A k \in cards : \E c \in columns : c.id = k.columnId /\ c.boardId = k.boardId

\* a request to create a card on b1 in the column of b2 was answered 404
C16_Witness ==
  /\ req.op = "createCard" /\ resp = 404 /\ req.boardId = "b1"
  /\ \E c \in columns : c.id = req.columnId /\ c.boardId = "b2"
  /\ ~ \E k \in cards : k.id = nextCard

(* ------------------------------- C17 ----------------------------------- *)
\* C17: a reorder request whose list holds an id that is not a column of the
\* named board is rejected and changes no column.
C17_ReorderForeignId ==
  [][req'.op = "reorderColumns" =>
     LET b == req'.boardId
         own == {c.id : c \in ColumnsOf(columns, b)}
     IN \A ids \in ReorderLists :
          ((\E i \in 1..Len(ids) : ids[i] \notin own) /\ ReorderColumns(req'.user, b, ids))
          => (resp' # 200 /\ columns' = columns)]_vars

(* ------------------------------- C18 ----------------------------------- *)
\* the rows of a table that reference the board
RowsOfBoard(rows, boardId) == {r \in rows : r.boardId = boardId}

\* C18: after the owner's delete of a board no column, card, member row or
\* activity references it, the board_deleted entry of the request included,
\* and the rows of the other boards are as they were.
C18_BoardDeleteCascade ==
  [][(req'.op = "deleteBoard" /\ resp' = 200) =>
     LET b == req'.boardId IN
     /\ boards' = {x \in boards : x.id # b}
     /\ columns' = columns \ RowsOfBoard(columns, b)
     /\ cards' = cards \ RowsOfBoard(cards, b)
     /\ members' = members \ RowsOfBoard(members, b)
     /\ activities' = SelectSeq(activities, LAMBDA a : a.boardId # b)
     /\ teamMembers' = teamMembers]_vars

\* u1 deleted b1, which held columns, cards, a member row and an activity;
\* b2 still holds its own
C18_Witness ==
  /\ req.op = "deleteBoard" /\ resp = 200 /\ role = "owner" /\ req.boardId = "b1"
  /\ {x.id : x \in boards} = {"b2"}
  /\ RowsOfBoard(columns, "b2") # {} /\ RowsOfBoard(cards, "b2") # {}
  /\ RowsOfBoard(members, "b2") # {}
  /\ Len(activities) = 1 /\ activities[1].boardId = "b2"

(* ------------------------------- C19 ----------------------------------- *)
\* the columns a request in flight reads or writes
TouchedBy(q) ==
  {q.columnId} \cup (IF IsDefined(q.card) THEN {Val(q.card).columnId} ELSE {})

\* C19: once two concurrent move requests that touch a common column, each
\* with a position within its target column when it read its card, have both
\* completed, every column's non-archived positions are dense.
C19_ConcurrentMovesDense ==
  (/\ DOMAIN inflight = Movers
   /\ \A r \in Movers : inflight[r].pc = "done" /\ inflight[r].inRange
   /\ TouchedBy(inflight[1]) \cap TouchedBy(inflight[2]) # {})
  => \A c \in columns : DenseCards(cards, c.id)

(* ------------------------------- C20 ----------------------------------- *)
\* C20: whenever the board is read while a cross-column move is in flight,
\* the answer shows every column dense: no two cards at one position and no
\* vacated position.
C20_ReaderSeesDenseColumns ==
  DOMAIN inflight = {1} => \A c \in columns : DenseCards(observed, c.id)

(* ------------------------------- C22 ----------------------------------- *)
\* C22: a move request of a caller who may edit, naming a column of the
\* card's board and a position beyond the range of that column (more than
\* N - 1 within the card's own column of N cards, more than N in another
\* column of N cards), is answered 400 and changes no table.
C22_MoveOutOfRange ==
  [][req'.op = "moveCard" =>
     \A card \in cards, c \in columns, dst \in 0..MaxPos :
       LET access == checkBoardAccess(card.boardId, req'.user)
           N == Cardinality(LiveCardsOf(cards, c.id))
       IN
       (/\ access.hasAccess
        /\ canEdit(access.role)
        /\ ~card.isArchived
        /\ c.boardId = card.boardId
        /\ IF c.id = card.columnId THEN dst > N - 1 ELSE dst > N
        /\ MoveCard(req'.user, card.id, c.id, Some(dst)))
       => (resp' = 400 /\ UNCHANGED dbvars)]_vars

(* ------------------------------- C21 ----------------------------------- *)
\* C21: when a move request naming a position within the target column
\* fails at one of its database statements, every column holds its
\* non-archived cards at positions 0..N-1, each once, as before the request.
C21_FailedMoveKeepsPositions ==
  \A r \in DOMAIN inflight :
    (inflight[r].status = 500 /\ inflight[r].inRange)
    => \A c \in columns : DenseCards(cards, c.id)

(* ------------------------------- C25 ----------------------------------- *)
\* C25: a move of a card to another position of its own column leaves as it
\* was every other card whose position lies outside the closed range between
\* the card's position and the target position, every card of another
\* column, and every column.
C25_SameColumnMoveFrame ==
  [][(req'.op = "moveCard" /\ resp' = 200) =>
     \A card \in cards, dst \in 0..MaxPos :
       LET lo == IF card.position < dst THEN card.position ELSE dst
           hi == IF card.position < dst THEN dst ELSE card.position
       IN
       (/\ card.id = req'.cardId
        /\ card.columnId = req'.columnId
        /\ card.position # dst
        /\ MoveCard(req'.user, card.id, card.columnId, Some(dst)))
       => /\ \A x \in cards \ {card} :
               (x.columnId # card.columnId \/ x.position < lo \/ x.position > hi)
               => x \in cards'
          /\ columns' = columns]_vars

\* card 1 was moved from position 0 to position 1 of its column: card 2 took
\* position 0 and card 3, behind the range, is still at position 2
C25_Witness ==
  /\ req.op = "moveCard" /\ resp = 200 /\ req.cardId = 1
  /\ activities = InitActivities
  /\ \E k1, k2, k3 \in cards :
       /\ k1.id = 1 /\ k2.id = 2 /\ k3.id = 3
       /\ k1.columnId = req.columnId /\ k2.columnId = req.columnId /\ k3.columnId = req.columnId
       /\ k2.position = 0 /\ k1.position = 1 /\ k3.position = 2

(* ------------------------------- C26 ----------------------------------- *)
\* C26: creating a column at an explicit position p, 0 <= p <= N, on a board
\* whose N columns are at positions 0..N-1 moves each column at position p or
\* later up by one, leaves the columns before p where they are and places
\* the new column at p, so that the board's columns are at positions 0..N
\* in their previous relative order (also for p = 0 on a board without
\* columns and for p = N).
C26_CreateColumnAtPosition ==
  [][(req'.op = "createColumn" /\ resp' = 201) =>
     LET b == req'.boardId
         own == ColumnsOf(columns, b)
     IN \A p \in 0..MaxPos :
       (/\ CreateColumn(req'.user, b, "Todo", Some(p), Undefined, Undefined)
        /\ DenseColumns(columns, b)
        /\ p <= Cardinality(own))
       => /\ \A c \in own :
               [c EXCEPT !.position = IF c.position >= p THEN @ + 1 ELSE @] \in columns'
          /\ \E new \in columns' : /\ new.id = nextColumn /\ new.boardId = b
                                  /\ new.position = p
          /\ Cardinality(ColumnsOf(columns', b)) = Cardinality(own) + 1
          /\ DenseColumns(columns', b)]_vars

\* column 4 was created at position 1 of a board of three columns: column 1
\* is still at position 0, columns 2 and 3 moved to positions 2 and 3
C26_Witness ==
  /\ req.op = "createColumn" /\ resp = 201
  /\ \E c1, c2, c3, c4 \in ColumnsOf(columns, req.boardId) :
       /\ c1.id = 1 /\ c2.id = 2 /\ c3.id = 3 /\ c4.id = 4
       /\ c1.position = 0 /\ c4.position = 1 /\ c2.position = 2 /\ c3.position = 3

(* ------------------------------- C27 ----------------------------------- *)
\* C27: creating a card at an explicit position p, 0 <= p <= N, in a column
\* whose N non-archived cards are at positions 0..N-1 moves each of them at
\* position p or later up by one and places the new card at p, so that no
\* two non-archived cards of the column share a position.
C27_CreateCardAtPosition ==
  [][(req'.op = "createCard" /\ resp' = 201) =>
     LET b == req'.boardId
         c == req'.columnId
         live == LiveCardsOf(cards, c)
     IN \A p \in 0..MaxPos :
       (/\ CreateCard(req'.user, b, c, "Task", Some(p))
        /\ DenseCards(cards, c)
        /\ p <= Cardinality(live))
       => /\ \A k \in live :
               [k EXCEPT !.position = IF k.position >= p THEN @ + 1 ELSE @] \in cards'
          /\ \E new \in cards' : /\ new.id = nextCard /\ new.columnId = c
                                /\ new.position = p
          /\ \A k1, k2 \in LiveCardsOf(cards', c) : k1.position = k2.position => k1 = k2]_vars

(* ------------------------------- C28 ----------------------------------- *)
\* C28: a create-column request with an explicit position beyond N, the
\* number of columns of the board, is answered 400 and changes no table.
C28_CreateBeyondRange ==
  [][req'.op = "createColumn" =>
     LET b == req'.boardId
         access == checkBoardAccess(b, req'.user)
     IN \A p \in 0..MaxPos :
       (/\ access.hasAccess
        /\ canEdit(access.role)
        /\ p > Cardinality(ColumnsOf(columns, b))
        /\ CreateColumn(req'.user, b, "Todo", Some(p), Undefined, Undefined))
       => (resp' = 400 /\ UNCHANGED dbvars)]_vars

(* ------------------------------- C29 ----------------------------------- *)
\* C29: deleting a non-archived card at position p of a column whose
\* non-archived cards are at positions 0..N-1 removes the card and moves
\* each non-archived card of the column behind p down by one, so that the
\* column's cards are at positions 0..N-2.
C29_DeleteCardCompacts ==
  [][(req'.op = "deleteCard" /\ resp' = 200) =>
     \A card \in cards :
       (/\ card.id = req'.cardId
        /\ ~card.isArchived
        /\ DenseCards(cards, card.columnId)
        /\ DeleteCard(req'.user, card.id))
       => /\ ~ \E k \in cards' : k.id = card.id
          /\ \A k \in LiveCardsOf(cards, card.columnId) \ {card} :
               [k EXCEPT !.position = IF k.position > card.position THEN @ - 1 ELSE @]
                 \in cards'
          /\ DenseCards(cards', card.columnId)]_vars

(* ------------------------------- C30 ----------------------------------- *)
\* C30: a card created without a position is stored at position N, the
\* number of non-archived cards the column held when the request was served,
\* whatever card requests were served before.
C30_AppendAtCount ==
  [][(req'.op = "createCard" /\ resp' = 201) =>
     LET c == req'.columnId IN
     CreateCard(req'.user, req'.boardId, c, "Task", Undefined)
     => \E new \in cards' : /\ new.id = nextCard /\ new.columnId = c
                            /\ new.position = Cardinality(LiveCardsOf(cards, c))]_vars

(* ------------------------------- C24 ----------------------------------- *)
\* C24: under every type filter a non-archived board matches (its own type,
\* or "all"), the list of boards answered to a caller holds the board
\* exactly when checkBoardAccess grants the caller access to it.
C24_ListedIffAccess ==
  [][(req'.op = "listBoards" /\ resp' = 200) =>
     \A type \in BoardFilters :
       ListBoards(req'.user, type, NoTeam, FALSE)
       => \A b \in boards :
            (~b.isArchived /\ (type = "all" \/ type = b.type))
            => (b.id \in listed' <=> checkBoardAccess(b.id, req'.user).hasAccess)]_vars

\* a team board was listed to a member of its team who neither created it
\* nor has a member row
C24_Witness ==
  /\ req.op = "listBoards" /\ resp = 200
  /\ listed = {"b1"}
  /\ \E b \in boards : /\ b.id = "b1" /\ b.type = "team" /\ ~b.isArchived
                       /\ b.createdBy # req.user
                       /\ [teamId |-> b.teamId, userId |-> req.user] \in teamMembers
  /\ ~ \E m \in members : m.userId = req.user

(* ------------------------------- C23 ----------------------------------- *)
\* C23: a request whose activity insert throws is answered as the same
\* request is answered when the insert works, and leaves every table other
\* than the activity log as that request leaves it.
C23_LogFailureKeepsOutcome ==
  [][\A q \in LogRequests :
       (logDown' /\ Handle(q))
       => \E r \in {resp'},
             t \in {<<boards', members', teamMembers', columns', cards',
                      nextColumn', nextCard'>>} :
            ENABLED (/\ ServeLog
                     /\ ~logDown'
                     /\ Handle(q)
                     /\ resp' = r
                     /\ <<boards', members', teamMembers', columns', cards',
                          nextColumn', nextCard'>> = t)]_vars

\* a card was deleted and the request answered 200 although the insert of
\* its card_deleted activity threw
C23_Witness ==
  /\ logDown
  /\ req.op = "deleteCard" /\ resp = 200
  /\ ~ \E k \in cards : k.id = req.cardId
  /\ activities = InitActivities

(* ------------------------------- C36 ----------------------------------- *)
\* C36: a move answered 200 that takes a card to another column appends
\* exactly one activity, a card_moved entry naming the card's column and the
\* target column; a move answered 200 within the card's column appends none.
C36_MoveLogged ==
  [][(req'.op = "moveCard" /\ resp' = 200) =>
     \A card \in cards :
       card.id = req'.cardId
       => IF card.columnId = req'.columnId
            THEN activities' = activities
            ELSE /\ Len(activities') = Len(activities) + 1
                 /\ activities'[Len(activities')].type = "card_moved"
                 /\ activities'[Len(activities')].cardId = card.id
                 /\ activities'[Len(activities')].meta =
                      <<card.title, ColumnName(card.columnId), ColumnName(req'.columnId)>>]_vars

(* ------------------------------- C31 ----------------------------------- *)
\* C31: no request changes the column or the position stored for an
\* archived card, and a move request whose subject is an archived card
\* changes the row of no non-archived card.
C31_ArchivedHoldsNoSlot ==
  [][\A card \in cards :
       card.isArchived
       => /\ \A k \in cards' :
               k.id = card.id => (k.position = card.position /\ k.columnId = card.columnId)
          /\ (req'.op = "moveCard" /\ req'.cardId = card.id)
             => \A x \in cards : ~x.isArchived => x \in cards']_vars

(* ------------------------------- C38 ----------------------------------- *)
\* C38: after a request that restores an archived card, no two non-archived
\* cards of the card's column share a position, provided none did before.
C38_UnarchiveKeepsDistinct ==
  [][(req'.op = "updateCard" /\ resp' = 200) =>
     \A card \in cards :
       (/\ card.id = req'.cardId
        /\ card.isArchived
        /\ UpdateCard(req'.user, card.id, Undefined, Some(FALSE))
        /\ \A k1, k2 \in LiveCardsOf(cards, card.columnId) :
             k1.position = k2.position => k1 = k2)
       => \A k1, k2 \in LiveCardsOf(cards', card.columnId) :
            k1.position = k2.position => k1 = k2]_vars

(* ------------------------------- C37 ----------------------------------- *)
\* C37: after any sequence of card creations without a position, moves to a
\* position that is not negative and card deletions, served one after the
\* other from a board of dense columns, no two non-archived cards of a
\* column share a position.
C37_PositionsDistinct ==
  \A c \in columns : \A k1, k2 \in LiveCardsOf(cards, c.id) :
    k1.position = k2.position => k1 = k2

\* a card was deleted and a card was then created behind the gap the
\* delete left: the column's cards are at distinct positions that are not 0..N-1
C37_Witness ==
  /\ served = 2
  /\ req.op = "createCard" /\ resp = 201
  /\ ~DenseCards(cards, req.columnId)
  /\ \E k \in cards : k.id = MaxCards /\ k.columnId = req.columnId /\ k.position = 2
  /\ Cardinality(LiveCardsOf(cards, req.columnId)) = 2

(* ------------------------------- C35 ----------------------------------- *)
\* C35: after every request each board has a team reference exactly when
\* its kind is team, and a board that was there before the request has the
\* kind and the team reference it had.
C35_TeamIffTeamKind ==
  [][/\ \A b \in boards' : (b.teamId # NoTeam) <=> (b.type = "team")
     /\ \A b \in boards : \A b2 \in boards' :
          b2.id = b.id => (b2.type = b.type /\ b2.teamId = b.teamId)]_vars

\* a member of team t1 created a team board while a personal board existed
C35_Witness ==
  /\ req.op = "createBoard" /\ resp = 201
  /\ \E b \in boards : b.type = "team" /\ b.teamId = "t1" /\ b.createdBy = req.user
  /\ \E b \in boards : b.type = "personal" /\ b.teamId = NoTeam

(* ------------------------------- C34 ----------------------------------- *)
\* C34: a mutating request answered 401, 404 or 400 has changed no board,
\* member, column or card row and has appended no activity.
C34_RejectedChangesNothing ==
  [][(req'.op \in MutatingOps /\ resp' \in {400, 401, 404}) => UNCHANGED dbvars]_vars

\* an owner's reorder request with an empty list was answered 400
C34_Witness ==
  /\ req.op = "reorderColumns" /\ resp = 400 /\ role = "owner"
  /\ columns = InitColumns
  /\ activities = InitActivities

(* ------------------------------- C33 ----------------------------------- *)
\* C33: in every state, a card_deleted entry of the activity log names a
\* card that has been deleted.
C33_LoggedAfterApplied ==
  \A i \in DOMAIN activities :
    activities[i].type = "card_deleted"
    => ~ \E k \in cards : k.id = activities[i].cardId

(* ------------------------------- C32 ----------------------------------- *)
\* C32: when two create-card requests without position on one column have
\* both been answered 201, the two new cards are at distinct positions.
C32_ConcurrentAppendsDistinct ==
  \A r1, r2 \in DOMAIN inflight :
    ( /\ r1 # r2
      /\ inflight[r1].pc = "done" /\ inflight[r1].status = 201
      /\ inflight[r2].pc = "done" /\ inflight[r2].status = 201
      /\ inflight[r1].position = Undefined /\ inflight[r2].position = Undefined
      /\ inflight[r1].columnId = inflight[r2].columnId )
    => inflight[r1].newPosition # inflight[r2].newPosition

(* ------- the drag handlers of the board view (SpecDrag) ---------------- *)
MaxDragOvers == 2

\* what a drag gesture is over: nothing, a card of the view, or a column
NoOver == [type |-> "none", id |-> 0]
OverCard(k) == [type |-> "card", id |-> k]
OverColumn(c) == [type |-> "column", id |-> c]

\* Array.prototype.findIndex: the index, from 0, of the first element equal
\* to x, or -1
findIndex(seq, x) ==
  IF \E i \in 1..Len(seq) : seq[i] = x
    THEN (CHOOSE i \in 1..Len(seq) : seq[i] = x /\ \A j \in 1..(i - 1) : seq[j] # x) - 1
    ELSE -1

\* Array.prototype.splice(index, 0, x); a negative index counts from the end
splice(seq, index, x) ==
  LET at == IF index < 0 THEN (IF Len(seq) + index < 0 THEN 0 ELSE Len(seq) + index)
            ELSE IF index > Len(seq) THEN Len(seq) ELSE index
  IN InsertAt(seq, at + 1, x)

\* useState(board.columns): the columns of board b1 as loaded, each with the
\* ids of its cards in position order.  A card object keeps the columnId it
\* was loaded with, which is the columnId of its row.
LoadedColumns ==
  [c \in {col.id : col \in ColumnsOf(columns, "b1")} |-> CardOrder(cards, c)]

\* the board view of user u1: its columns state, the card being dragged, the
\* number of drag-over events it has handled and the move request of the drop
BoardView ==
  [pc |-> "idle", board |-> LoadedColumns, columns |-> LoadedColumns, activeCard |-> 0,
   overs |-> 0, targetColumnId |-> 0, targetPosition |-> 0, status |-> 0]

ShownCards(v) == UNION {{v.columns[c][i] : i \in 1..Len(v.columns[c])} : c \in DOMAIN v.columns}

handleDragStart(r, k) ==
  LET v == inflight[r] IN
  /\ v.pc = "idle"
  /\ k \in ShownCards(v)
  /\ inflight' = [inflight EXCEPT ![r].pc = "dragging", ![r].activeCard = k]
  /\ UNCHANGED <<dbvars, req, resp, role, served, observed, listed, logDown>>

\* setColumns of handleDragOver: the card leaves the list of the column its
\* object names and enters the target list at index (or at the end)
MovedInView(cols, activeColumnId, activeId, targetColumnId, index) ==
  [c \in DOMAIN cols |->
     IF c = activeColumnId THEN Without(cols[c], activeId)
     ELSE IF c = targetColumnId
       THEN (IF index = Len(cols[c]) + 1 THEN Append(cols[c], activeId)
             ELSE splice(cols[c], index, activeId))
     ELSE cols[c]]

handleDragOver(r, over) ==
  LET v == inflight[r]
      activeColumnId == CardRow(v.activeCard).columnId
  IN
  /\ v.pc = "dragging"
  /\ v.overs < MaxDragOvers
  /\ over.type = "card" => over.id \in ShownCards(v)
  /\ over.type = "column" => over.id \in DOMAIN v.columns
  /\ inflight' =
       [inflight EXCEPT ![r].overs = v.overs + 1,
          ![r].columns =
            IF over.type = "none" THEN v.columns
            ELSE IF over.type = "card" /\ over.id = v.activeCard THEN v.columns
            ELSE IF over.type = "card"
              THEN LET overColumnId == CardRow(over.id).columnId IN
                   IF activeColumnId # overColumnId
                     THEN MovedInView(v.columns, activeColumnId, v.activeCard, overColumnId,
                                      findIndex(v.columns[overColumnId], over.id))
                     ELSE v.columns
            ELSE IF activeColumnId # over.id
              THEN MovedInView(v.columns, activeColumnId, v.activeCard, over.id,
                               Len(v.columns[over.id]) + 1)
              ELSE v.columns]
  /\ UNCHANGED <<dbvars, req, resp, role, served, observed, listed, logDown>>

\* handleDragEnd up to the fetch of onCardMove
handleDragEnd(r, over) ==
  LET v == inflight[r]
      activeColumnId == CardRow(v.activeCard).columnId
  IN
  /\ v.pc = "dragging"
  /\ over.type = "card" => over.id \in ShownCards(v)
  /\ over.type = "column" => over.id \in DOMAIN v.columns
  /\ inflight' =
       IF over.type = "none"
         THEN [inflight EXCEPT ![r].pc = "idle", ![r].activeCard = 0]
       ELSE IF over.type = "card"
         THEN LET overColumnId == CardRow(over.id).columnId IN
              [inflight EXCEPT ![r].pc = "sent",
                 ![r].targetColumnId = overColumnId,
                 ![r].targetPosition = findIndex(v.columns[overColumnId], over.id)]
       ELSE [inflight EXCEPT ![r].pc = "sent",
               ![r].targetColumnId = over.id,
               ![r].targetPosition = Len(v.columns[over.id])]
  /\ UNCHANGED <<dbvars, req, resp, role, served, observed, listed, logDown>>

\* the move route serves the request; on an error answer handleCardMove
\* throws and handleDragEnd puts board.columns back
handleCardMove(r) ==
  LET v == inflight[r] IN
  /\ v.pc = "sent"
  /\ served < MaxRequests
  /\ served' = served + 1
  /\ UNCHANGED <<observed, listed, logDown>>
  /\ MoveCard("u1", v.activeCard, v.targetColumnId, Some(v.targetPosition))
  /\ inflight' = [inflight EXCEPT ![r].pc = "done", ![r].status = resp',
                    ![r].columns = IF resp' = 200 THEN v.columns ELSE v.board]

InitDrag ==
  /\ InitMoves
  /\ inflight = [r \in {1} |-> BoardView]

NextDrag ==
  \/ \E k \in CardIds : handleDragStart(1, k)
  \/ \E k \in CardIds : handleDragOver(1, OverCard(k))
  \/ \E c \in ColumnIds : handleDragOver(1, OverColumn(c))
  \/ \E k \in CardIds : handleDragEnd(1, OverCard(k))
  \/ \E c \in ColumnIds : handleDragEnd(1, OverColumn(c))
  \/ handleDragEnd(1, NoOver)
  \/ handleCardMove(1)

SpecDrag == InitDrag /\ [][NextDrag]_vars

(* ------------------------------- C39 ----------------------------------- *)
\* C39: every move request sent by the drag-end handler carries a position
\* within the server's range: from 0 to N - 1 when the target is the card's
\* own column of N cards, from 0 to N when it is another column of N cards.
C39_DragRequestInRange ==
  \A r \in DOMAIN inflight :
    inflight[r].pc = "sent"
    => LET v == inflight[r]
           N == Cardinality(LiveCardsOf(cards, v.targetColumnId))
       IN
       /\ 0 <= v.targetPosition
       /\ IF v.targetColumnId = CardRow(v.activeCard).columnId
            THEN v.targetPosition <= N - 1
            ELSE v.targetPosition <= N

====
